---- MODULE Spec2Model ----
(***************************************************************************)
(* Hope Terminal kiosk supervisor (index.ts, process-manager.ts,          *)
(* power-monitor.ts, browser.ts).                                         *)
(*                                                                         *)
(* The supervisor runs on a single-threaded event loop.  Every action of   *)
(* this model is one run-to-completion segment of the code: from the point *)
(* where a callback or a continuation is resumed to the next `await` on a  *)
(* timer, a child process or an external tool.                             *)
(***************************************************************************)
EXTENDS Integers, Sequences, FiniteSets, TLC

\* ------------------------------------------------------------------ bounds
\* Browser processes the supervisor may spawn in one run.
MaxBrowsers == 2
\* Workload processes the supervisor may spawn in one run.
MaxWorkloads == 2
\* Screen-poll callbacks that may be in flight at the same time.
MaxTicks == 2

\* Names a display query may report for the secondary screen.
Screens == {"HDMI-1", "DP-1"}
NoScreen == "none"
ScreenOpt == Screens \cup {NoScreen}

\* Entries a display query may list.
MaxScreens == 3
\* ScreenInfo with the fields findSecondaryScreen reads (width, height and
\* yOffset are only logged), and null.
ScreenNames == Screens \cup {"eDP-1"}
ScreenInfo == [name : ScreenNames, xOffset : {0, 1920}, isPrimary : BOOLEAN]
NullScreen == [name |-> NoScreen, xOffset |-> 0, isPrimary |-> FALSE]
\* What detectScreens may return: whatever connected outputs the tool
\* printed, in the order it printed them.
ScreenLists ==
  UNION {[1..n -> ScreenInfo] : n \in 0..MaxScreens}
\* detectScreens when xrandr cannot be run or exits non-zero.
DetectFailed == <<>>

PowerStatus == {"ac", "battery", "unknown"}

\* Polls a power monitor under observation may complete.
MaxSamples == 5

\* GRACEFUL_TIMEOUT_MS, in intervals of gracefulStop's poll timer.
MaxPolls == 3
\* stop() calls made on a power monitor under observation
MaxStops == 2

\* The width of every screen of the model, and the screens a window is
\* moved to.
ScreenWidth == 1920
Targets ==
  {[name |-> "HDMI-1", xOffset |-> x, isPrimary |-> FALSE] : x \in {0, 1920}}
\* findFirefoxWindow: a window id, null after the last retry, or an
\* exception because wmctrl cannot be spawned.
NoWindow == "null"
WindowSearch == {"0x1", NoWindow, "throws"}
\* getWindowPosition: null is <<>>, a position <<x>>; the x values lie on
\* and next to the edges of the two target rectangles.
Positions == {<<>>} \cup {<<x>> : x \in {-1, 0, 1919, 1920, 3839, 3840}}
\* What wmctrl does in one attempt: the exit code of the move and the
\* position read back afterwards.
MoveReply == [moveExitCode : {0, 1}, pos : Positions]
\* maxMoveAttempts in startup mode
StartupAttempts == 3

\* Characters a command line is written in here: a string is the sequence
\* of its characters.
Chars == {"a", "b", " ", "\t", "\"", "'"}
\* Length of the command strings parseCommand is given.
MaxLen == 4
Strings == UNION {[1..n -> Chars] : n \in 0..MaxLen}
\* A command string with a quoted argument:
\* node server.js --flag "hello world"
ExampleCommand ==
  <<"n", "o", "d", "e", " ", "s", "e", "r", "v", "e", "r", ".", "j", "s", " ",
    "-", "-", "f", "l", "a", "g", " ", "\"", "h", "e", "l", "l", "o", " ",
    "w", "o", "r", "l", "d", "\"">>
\* The separator token "--", and a command of two words.
DashDash == <<"-", "-">>
TwoWords == <<"a", " ", "b">>
\* Arguments without a word: empty, a space, a tab, empty quotes.
Blank == {<<>>, <<" ">>, <<"\t">>, <<"\"", "\"">>, <<"'", "'">>}
\* Command lines that name no command: no argument, the separator alone,
\* or one or two blank arguments with or without the separator.
BlankArgs ==
  {<<>>, <<DashDash>>}
    \cup {pre \o <<w>> : pre \in {<<>>, <<DashDash>>}, w \in Blank}
    \cup {pre \o <<w, x>> : pre \in {<<>>, <<DashDash>>}, w \in Blank,
                            x \in Blank}
\* null of `string | null`: no string has an element of four characters.
NoCommand == <<"null">>

BrowserIds == 1..MaxBrowsers
WorkloadIds == 1..MaxWorkloads
Ticks == 1..MaxTicks
\* Context 0 is main(); contexts 1..MaxTicks are setInterval callbacks.
MainCtx == 0

VARIABLES
  \* index.ts module state
  browser,                \* 0 = null, else the browser process of the instance
  managedProcess,         \* 0 = null, else the workload process
  wCommand,               \* the command string each workload was started with
  isShuttingDown,
  currentScreenName,
  screenMonitorInterval,  \* TRUE while the setInterval timer is installed
  \* child processes
  bProc,                  \* browser processes: unspawned, running, term or
                          \* kill (alive, that signal sent), exited
  wProc,                  \* workload processes: likewise, with int for SIGINT
  \* positions of main() and of the tick callbacks, with their locals
  pc, scr, lb,
  \* position of the shutdown sequencer, with its locals
  pcShut, shutB, shutW,
  \* power monitor closure state
  pmPc, pmRunning, pmStatus,
  \* the samples a monitor under observation has read, how often it has
  \* invoked its onPowerDisconnect callback, and how often its stop() has
  \* been called
  samples, invocations, stopCalls,
  \* process.argv.slice(2)
  args,
  \* a function under observation: the list detectScreens returned and the
  \* `secondary` found in it, the `parts` of the parsed command, and which
  \* call has returned
  screens, secondary, parts, returned,
  \* gracefulStop under observation: the `elapsed` time its poll loop last
  \* computed, the signals it has sent, and its return value
  elapsed, sent, graceful,
  \* moveFirefoxToScreen under observation: its isStartup argument, what
  \* findFirefoxWindow and wmctrl answer, and its return value
  isStartup, windowId, wmctrl, moved,
  \* process.exit: -1 while the supervisor runs, else the exit code
  supExit,
  \* history: the shutdown steps performed, the entering trigger, and the
  \* triggers that arrived after the sequence was entered
  steps, entered, lateTriggers

vars == <<browser, managedProcess, wCommand, isShuttingDown,
          currentScreenName, screenMonitorInterval, bProc, wProc,
          pc, scr, lb, pcShut, shutB, shutW, pmPc, pmRunning, pmStatus,
          samples, invocations, stopCalls, args, screens, secondary, parts, returned,
          elapsed, sent, graceful, isStartup, windowId, wmctrl, moved,
          supExit, steps, entered, lateTriggers>>

supVars == <<browser, managedProcess, wCommand, isShuttingDown,
             currentScreenName, screenMonitorInterval>>
procVars == <<bProc, wProc>>
ctxVars == <<pc, scr, lb>>
shutVars == <<pcShut, shutB, shutW>>
moveVars == <<isStartup, windowId, wmctrl, moved>>
callVars == <<args, screens, secondary, parts, returned, elapsed, sent,
              graceful, moveVars>>
obsVars == <<samples, invocations, stopCalls, callVars>>
pmVars == <<pmPc, pmRunning, pmStatus, obsVars>>
histVars == <<steps, entered, lateTriggers>>

\* ------------------------------------------------------------------ helpers
Min(S) == CHOOSE x \in S : \A y \in S : x <= y

Running == supExit = -1

\* process.exitCode === null
BrowserAlive(b) == bProc[b] \in {"running", "term", "kill"}
WorkloadAlive(w) == wProc[w] \in {"running", "int", "kill"}

\* browser !== null && browser.process.exitCode === null
isBrowserRunning == browser # 0 /\ BrowserAlive(browser)

\* managedProcess.isRunning()
isRunning(w) == WorkloadAlive(w)

\* Subprocess.kill(sig): no effect on a process that has exited; SIGKILL
\* is not undone by a later, weaker signal.
KillB(b, sig) ==
  [bProc EXCEPT ![b] = IF BrowserAlive(b) /\ @ # "kill" THEN sig ELSE @]
KillW(w, sig) ==
  [wProc EXCEPT ![w] = IF WorkloadAlive(w) /\ @ # "kill" THEN sig ELSE @]

UnspawnedB == {b \in BrowserIds : bProc[b] = "unspawned"}
UnspawnedW == {w \in WorkloadIds : wProc[w] = "unspawned"}

\* --------------------------------------------------------- pure functions
\* Array.prototype.indexOf, counting from 1, 0 for "not found".
IndexOf(arr, x) ==
  IF \E i \in 1..Len(arr) : arr[i] = x
    THEN Min({i \in 1..Len(arr) : arr[i] = x})
    ELSE 0

\* Array.prototype.join on strings.
RECURSIVE Join(_, _)
Join(arr, sep) ==
  IF arr = <<>> THEN <<>>
  ELSE IF Len(arr) = 1 THEN arr[1]
  ELSE arr[1] \o sep \o Join(Tail(arr), sep)

\* Mutant: the arguments are joined even when the first one is "--".
getCommand_JoinsSeparator(argv) ==
  LET dashDashIndex == IndexOf(argv, DashDash) IN
    IF dashDashIndex # 0 /\ dashDashIndex < Len(argv)
      THEN Join(SubSeq(argv, dashDashIndex + 1, Len(argv)), <<" ">>)
    ELSE IF Len(argv) > 0
      THEN Join(argv, <<" ">>)
    ELSE NoCommand

\* getCommand(): everything after the first "--" if something follows it,
\* else every argument unless the first one is "--", else null.
getCommand(argv) ==
  LET dashDashIndex == IndexOf(argv, DashDash) IN
    IF dashDashIndex # 0 /\ dashDashIndex < Len(argv)
      THEN Join(SubSeq(argv, dashDashIndex + 1, Len(argv)), <<" ">>)
    ELSE IF Len(argv) > 0 /\ argv[1] # DashDash
      THEN Join(argv, <<" ">>)
    ELSE NoCommand

\* `const command = getCommand()` in main().
command == getCommand(args)

\* `!command`: null or the empty string.
Falsy(cmd) == cmd = NoCommand \/ cmd = <<>>

\* Mutant: only the space splits tokens.
IsSpace_NoTab(char) == char = " "

\* parseCommand: `char === '"' || char === "'"` and
\* `char === " " || char === "\t"`.
IsQuote(char) == char \in {"\"", "'"}
IsSpace(char) == char \in {" ", "\t"}

\* The loop of parseCommand from index i on, with its locals.
RECURSIVE parseFrom(_, _, _, _, _, _)
parseFrom(cmd, i, tokens, current, inQuote, quoteChar) ==
  IF i > Len(cmd)
    THEN IF current # <<>> THEN Append(tokens, current) ELSE tokens
    ELSE LET char == cmd[i] IN
      IF inQuote
        THEN IF char = quoteChar
               THEN parseFrom(cmd, i + 1, tokens, current, FALSE, quoteChar)
               ELSE parseFrom(cmd, i + 1, tokens, Append(current, char),
                              TRUE, quoteChar)
      ELSE IF IsQuote(char)
        THEN parseFrom(cmd, i + 1, tokens, current, TRUE, char)
      ELSE IF IsSpace(char)
        THEN parseFrom(cmd, i + 1,
                       IF current # <<>> THEN Append(tokens, current)
                                         ELSE tokens,
                       <<>>, FALSE, quoteChar)
      ELSE parseFrom(cmd, i + 1, tokens, Append(current, char), FALSE,
                     quoteChar)

parseCommand(cmd) == parseFrom(cmd, 1, <<>>, <<>>, FALSE, "")

\* Mutant: the sort is not stable, an entry goes before its equals.
RECURSIVE SortByXOffsetDesc_TiesReversed(_)
SortByXOffsetDesc_TiesReversed(list) ==
  IF list = <<>> THEN <<>>
  ELSE LET rest == SortByXOffsetDesc_TiesReversed(
                     SubSeq(list, 1, Len(list) - 1))
           last == list[Len(list)]
           k == Cardinality({i \in 1..Len(rest) :
                               rest[i].xOffset > last.xOffset})
       IN SubSeq(rest, 1, k) \o <<last>> \o SubSeq(rest, k + 1, Len(rest))

\* [...screens].sort((a, b) => b.xOffset - a.xOffset): Array.prototype.sort
\* is stable, so an entry goes behind those that are not further left.
RECURSIVE SortByXOffsetDesc(_)
SortByXOffsetDesc(list) ==
  IF list = <<>> THEN <<>>
  ELSE LET rest == SortByXOffsetDesc(SubSeq(list, 1, Len(list) - 1))
           last == list[Len(list)]
           k == Cardinality({i \in 1..Len(rest) :
                               rest[i].xOffset >= last.xOffset})
       IN SubSeq(rest, 1, k) \o <<last>> \o SubSeq(rest, k + 1, Len(rest))

\* Mutant: the last entry not marked primary is taken.
findSecondaryScreen_LastNonPrimary(list) ==
  LET nonPrimary == {i \in 1..Len(list) : ~list[i].isPrimary} IN
    IF nonPrimary # {}
      THEN list[CHOOSE i \in nonPrimary : \A j \in nonPrimary : j <= i]
    ELSE IF Len(list) = 1 THEN NullScreen
    ELSE IF Len(list) > 1 THEN SortByXOffsetDesc(list)[1]
    ELSE NullScreen

\* Mutant: the check for a single entry is missing.
findSecondaryScreen_NoSingleCheck(list) ==
  LET nonPrimary == {i \in 1..Len(list) : ~list[i].isPrimary} IN
    IF nonPrimary # {} THEN list[Min(nonPrimary)]
    ELSE IF Len(list) > 0 THEN SortByXOffsetDesc(list)[1]
    ELSE NullScreen

\* findSecondaryScreen on the list detectScreens returned: the first entry
\* not marked primary; null for a single (primary) entry; of several
\* entries all marked primary the first of the sorted copy; else null.
findSecondaryScreen(list) ==
  LET nonPrimary == {i \in 1..Len(list) : ~list[i].isPrimary} IN
    IF nonPrimary # {} THEN list[Min(nonPrimary)]
    ELSE IF Len(list) = 1 THEN NullScreen
    ELSE IF Len(list) > 1 THEN SortByXOffsetDesc(list)[1]
    ELSE NullScreen

\* Mutant: the right edge of the target counts as inside.
isOnCorrectScreen_RightEdgeInside(x, screen) ==
  x >= screen.xOffset /\ x <= screen.xOffset + ScreenWidth

\* `pos.x >= screen.xOffset && pos.x < screen.xOffset + screen.width`
isOnCorrectScreen(x, screen) ==
  x >= screen.xOffset /\ x < screen.xOffset + ScreenWidth

\* The move loop of moveFirefoxToScreen from `attempt` on: a failed move
\* goes to the next attempt, a position that cannot be read back is taken
\* as success, a position read back decides between success and the next
\* attempt; after the last attempt the result is false.
RECURSIVE moveAttempts(_, _, _, _)
moveAttempts(screen, attempt, maxMoveAttempts, tool) ==
  IF attempt > maxMoveAttempts THEN FALSE
  ELSE IF tool[attempt].moveExitCode # 0
    THEN moveAttempts(screen, attempt + 1, maxMoveAttempts, tool)
  ELSE IF tool[attempt].pos = <<>> THEN TRUE
  ELSE IF isOnCorrectScreen(tool[attempt].pos[1], screen) THEN TRUE
  ELSE moveAttempts(screen, attempt + 1, maxMoveAttempts, tool)

\* const maxMoveAttempts = isStartup ? 3 : 1
maxAttempts(startup) == IF startup THEN StartupAttempts ELSE 1

\* moveFirefoxToScreen: false when the window search throws (caught) or
\* finds nothing, else the outcome of the move loop.
moveFirefoxToScreen(screen, startup, found, tool) ==
  IF found = "throws" THEN FALSE
  ELSE IF found = NoWindow THEN FALSE
  ELSE moveAttempts(screen, 1, maxAttempts(startup), tool)

\* No function is under observation.
NoCall ==
  /\ screens = <<>>
  /\ secondary = NullScreen
  /\ parts = <<>>
  /\ returned = "none"
  /\ elapsed = 0
  /\ sent = <<>>
  /\ graceful = FALSE
  /\ isStartup = FALSE
  /\ windowId = NoWindow
  /\ wmctrl = <<>>
  /\ moved = FALSE

Init ==
  /\ browser = 0
  /\ managedProcess = 0
  /\ wCommand = [w \in WorkloadIds |-> NoCommand]
  /\ isShuttingDown = FALSE
  /\ currentScreenName = NoScreen
  /\ screenMonitorInterval = FALSE
  /\ bProc = [b \in BrowserIds |-> "unspawned"]
  /\ wProc = [w \in WorkloadIds |-> "unspawned"]
  /\ pc = [c \in 0..MaxTicks |-> IF c = MainCtx THEN "start" ELSE "idle"]
  /\ scr = [c \in 0..MaxTicks |-> NoScreen]
  /\ lb = [c \in 0..MaxTicks |-> 0]
  /\ pcShut = "idle"
  /\ shutB = 0
  /\ shutW = 0
  /\ pmPc = "off"
  /\ pmRunning = FALSE
  /\ pmStatus = "unknown"
  /\ samples = <<>>
  /\ invocations = 0
  /\ stopCalls = 0
  /\ args = <<DashDash, TwoWords>>
  /\ NoCall
  /\ supExit = -1
  /\ steps = <<>>
  /\ entered = "none"
  /\ lateTriggers = {}

\* process.exit(code): the event loop ends, and with it every pending
\* callback, timer and continuation.  A clean exit is the last step of the
\* sequence; child processes are left as they are.
ProcessExit(code, log) ==
  /\ supExit' = code
  /\ steps' = IF code = 0 THEN Append(log, "exit") ELSE log
  /\ pcShut' = "exited"
  /\ shutB' = 0
  /\ shutW' = 0
  /\ pc' = [c \in 0..MaxTicks |-> "exited"]
  /\ scr' = [c \in 0..MaxTicks |-> NoScreen]
  /\ lb' = [c \in 0..MaxTicks |-> 0]
  /\ pmPc' = "exited"
  /\ pmRunning' = FALSE
  /\ pmStatus' = "unknown"
  /\ UNCHANGED obsVars

\* ------------------------------------------------------- launchBrowser
\* Bun.spawn(args) in launchBrowser: the lowest unused process id is started.
SpawnBrowser(c) ==
  /\ UnspawnedB # {}
  /\ LET b == Min(UnspawnedB) IN
       /\ bProc' = [bProc EXCEPT ![b] = "running"]
       /\ lb' = [lb EXCEPT ![c] = b]
  /\ pc' = [pc EXCEPT ![c] = "wait"]

\* Mutant: the process is started with the first word of the command only.
startProcess_DropsArguments(cmd) ==
  /\ UnspawnedW # {}
  /\ LET w == Min(UnspawnedW) IN
       /\ wProc' = [wProc EXCEPT ![w] = "running"]
       /\ wCommand' = [wCommand EXCEPT ![w] =
                         IF managedProcess = 0 THEN cmd
                                               ELSE parseCommand(cmd)[1]]
       /\ managedProcess' = w

\* managedProcess = startProcess(cmd): Bun.spawn(parseCommand(cmd)), unless
\* there is nothing to spawn; the handle becomes managedProcess.
startProcess(cmd) ==
  /\ parseCommand(cmd) # <<>>
  /\ UnspawnedW # {}
  /\ LET w == Min(UnspawnedW) IN
       /\ wProc' = [wProc EXCEPT ![w] = "running"]
       /\ wCommand' = [wCommand EXCEPT ![w] = cmd]
       /\ managedProcess' = w

\* main() from the return of launchBrowser (or from "no secondary screen")
\* to the await of startPowerMonitor: startScreenMonitor(), startProcess().
\* "Empty command provided" thrown by startProcess rejects main(), and the
\* catch handler calls process.exit(1).
MainAfterLaunch(result) ==
  /\ browser' = result
  /\ screenMonitorInterval' = TRUE
  /\ IF parseCommand(command) = <<>>
       THEN /\ ProcessExit(1, steps)
            /\ UNCHANGED <<managedProcess, wCommand, wProc, entered,
                           lateTriggers>>
       ELSE /\ startProcess(command)
            /\ pc' = [pc EXCEPT ![MainCtx] = "startPM"]
            /\ lb' = [lb EXCEPT ![MainCtx] = 0]
            /\ scr' = [scr EXCEPT ![MainCtx] = NoScreen]
            /\ UNCHANGED <<shutVars, pmVars, supExit, histVars>>
  /\ UNCHANGED <<isShuttingDown, bProc>>

\* Mutant: a failed launch leaves the module's handle as it was.
TickAfterLaunch_KeepsHandleOnFailure(t, result) ==
  /\ browser' = IF result = 0 THEN browser ELSE result
  /\ pc' = [pc EXCEPT ![t] = "idle"]
  /\ lb' = [lb EXCEPT ![t] = 0]
  /\ scr' = [scr EXCEPT ![t] = NoScreen]
  /\ UNCHANGED <<managedProcess, wCommand, isShuttingDown,
                 screenMonitorInterval, procVars>>
  /\ UNCHANGED <<shutVars, pmVars, supExit, histVars>>

\* The tick callback from the return of launchBrowser to its end.
TickAfterLaunch(t, result) ==
  /\ browser' = result
  /\ pc' = [pc EXCEPT ![t] = "idle"]
  /\ lb' = [lb EXCEPT ![t] = 0]
  /\ scr' = [scr EXCEPT ![t] = NoScreen]
  /\ UNCHANGED <<managedProcess, wCommand, isShuttingDown,
                 screenMonitorInterval, procVars>>
  /\ UNCHANGED <<shutVars, pmVars, supExit, histVars>>

\* `browser = await launchBrowser(screen)`: the assignment of the result and
\* what the caller does next.
LaunchReturn(c, result) ==
  /\ IF c = MainCtx THEN MainAfterLaunch(result) ELSE TickAfterLaunch(c, result)
  /\ UNCHANGED currentScreenName

\* launchBrowser up to the 1500 ms wait: no executable found (returns null),
\* or the profile is ensured and the browser process spawned.
LaunchFind(c) ==
  /\ Running
  /\ pc[c] = "find"
  /\ \/ LaunchReturn(c, 0)
     \/ /\ SpawnBrowser(c)
        /\ UNCHANGED <<supVars, wProc, scr, shutVars, pmVars, supExit,
                       histVars>>

\* After the 1500 ms wait: an immediate crash returns null, otherwise the
\* window positioner is started.
LaunchWait(c) ==
  /\ Running
  /\ pc[c] = "wait"
  /\ IF ~BrowserAlive(lb[c])
       THEN LaunchReturn(c, 0)
       ELSE /\ pc' = [pc EXCEPT ![c] = "move"]
            /\ UNCHANGED <<supVars, procVars, scr, lb, shutVars, pmVars,
                           supExit, histVars>>

\* Mutant: a positioner that reports failure makes the launch fail.
LaunchMove_FailsWithPositioner(c) ==
  /\ Running
  /\ pc[c] = "move"
  /\ \E positioned \in BOOLEAN :
       LaunchReturn(c, IF positioned THEN lb[c] ELSE 0)

\* moveFirefoxToScreen has returned `positioned` (its result is ignored):
\* the instance wrapping the spawned process is returned.
LaunchMove(c) ==
  /\ Running
  /\ pc[c] = "move"
  /\ \E positioned \in BOOLEAN : LaunchReturn(c, lb[c])

\* ---------------------------------------------------------------- main
\* main() up to its first await: without a command the usage text is
\* printed and the process exits with code 1; otherwise the signal handlers
\* are installed and findSecondaryScreen() is awaited.
MainStart ==
  /\ Running
  /\ pc[MainCtx] = "start"
  /\ IF Falsy(command)
       THEN ProcessExit(1, steps)
       ELSE /\ pc' = [pc EXCEPT ![MainCtx] = "detect"]
            /\ UNCHANGED <<scr, lb, shutVars, pmVars, supExit, steps>>
  /\ UNCHANGED <<supVars, procVars, entered, lateTriggers>>

\* `await findSecondaryScreen()` at startup has returned s.
MainDetected ==
  /\ Running
  /\ pc[MainCtx] = "detect"
  /\ \E s \in ScreenOpt :
       IF s # NoScreen
         THEN /\ currentScreenName' = s
              /\ scr' = [scr EXCEPT ![MainCtx] = s]
              /\ pc' = [pc EXCEPT ![MainCtx] = "find"]
              /\ UNCHANGED <<browser, managedProcess, wCommand,
                             isShuttingDown, screenMonitorInterval, procVars,
                             lb>>
              /\ UNCHANGED <<shutVars, pmVars, supExit, histVars>>
         ELSE /\ MainAfterLaunch(browser)
              /\ UNCHANGED currentScreenName

\* powerMonitor.stop(): a no-op of the monitor without a power source.
PowerMonitorStop ==
  /\ pmRunning' = FALSE
  /\ pmPc' = IF pmPc = "timer" THEN "idle" ELSE pmPc
  /\ UNCHANGED <<pmStatus, obsVars>>

\* main() after the auto-restart loop has ended.  The cleanup branch is
\* taken only with the latch clear; otherwise the power monitor is stopped
\* and main() returns.
MainAfterLoop ==
  IF ~isShuttingDown
    THEN /\ PowerMonitorStop
         /\ screenMonitorInterval' = FALSE
         /\ pc' = [pc EXCEPT ![MainCtx] = "cleanup"]
         /\ UNCHANGED <<browser, managedProcess, wCommand, isShuttingDown,
                        currentScreenName, procVars, scr, lb>>
    ELSE /\ PowerMonitorStop
         /\ pc' = [pc EXCEPT ![MainCtx] = "done"]
         /\ UNCHANGED <<supVars, procVars, scr, lb>>

\* startPowerMonitor has returned: no power source (a monitor that never
\* polls) or a first sample and an armed timer.  Then `while (!isShuttingDown)`:
\* with the latch set the loop and the cleanup branch are skipped and
\* powerMonitor.stop() runs; otherwise the workload's exit is awaited.
MainPowerMonitorStarted ==
  /\ Running
  /\ pc[MainCtx] = "startPM"
  /\ \/ /\ pmPc' = "nosrc"
        /\ UNCHANGED <<pmRunning, pmStatus>>
     \/ \E s0 \in PowerStatus :
          /\ pmStatus' = s0
          /\ pmRunning' = ~isShuttingDown
          /\ pmPc' = IF isShuttingDown THEN "idle" ELSE "timer"
  /\ pc' = [pc EXCEPT ![MainCtx] =
              IF isShuttingDown THEN "done" ELSE "waitExit"]
  /\ UNCHANGED <<supVars, procVars, scr, lb, shutVars, obsVars, supExit,
                 histVars>>

\* Mutant: the loop goes on to the backoff without awaiting the exit.
MainWorkloadExited_NoAwait ==
  /\ Running
  /\ pc[MainCtx] = "waitExit"
  /\ IF isShuttingDown
       THEN MainAfterLoop
       ELSE /\ pc' = [pc EXCEPT ![MainCtx] = "backoff"]
            /\ UNCHANGED <<supVars, procVars, scr, lb, pmVars>>
  /\ UNCHANGED <<shutVars, supExit, histVars>>

\* `await managedProcess.process.exited` has resolved.
MainWorkloadExited ==
  /\ Running
  /\ pc[MainCtx] = "waitExit"
  /\ ~WorkloadAlive(managedProcess)
  /\ IF isShuttingDown
       THEN MainAfterLoop
       ELSE /\ pc' = [pc EXCEPT ![MainCtx] = "backoff"]
            /\ UNCHANGED <<supVars, procVars, scr, lb, pmVars>>
  /\ UNCHANGED <<shutVars, supExit, histVars>>

\* Mutant: the latch is not checked again after the backoff wait.
MainBackoffDone_NoLatchCheck ==
  /\ Running
  /\ pc[MainCtx] = "backoff"
  /\ startProcess(command)
  /\ pc' = [pc EXCEPT ![MainCtx] = "waitExit"]
  /\ UNCHANGED <<browser, isShuttingDown, currentScreenName,
                 screenMonitorInterval, bProc, scr, lb, pmVars>>
  /\ UNCHANGED <<shutVars, supExit, histVars>>

\* The RESTART_DELAY_MS wait is over: break on the latch, else restart.
MainBackoffDone ==
  /\ Running
  /\ pc[MainCtx] = "backoff"
  /\ IF isShuttingDown
       THEN MainAfterLoop
       ELSE /\ startProcess(command)
            /\ pc' = [pc EXCEPT ![MainCtx] = "waitExit"]
            /\ UNCHANGED <<browser, isShuttingDown, currentScreenName,
                           screenMonitorInterval, bProc, scr, lb, pmVars>>
  /\ UNCHANGED <<shutVars, supExit, histVars>>

\* ------------------------------------------------------ screen monitor
IdleTicks == {t \in Ticks : pc[t] = "idle"}

\* The setInterval timer fires: a new callback starts whether or not an
\* earlier one has finished.  It returns at once under the latch, else it
\* awaits findSecondaryScreen().
TickFire ==
  /\ Running
  /\ screenMonitorInterval
  /\ IdleTicks # {}
  /\ LET t == Min(IdleTicks) IN
       pc' = [pc EXCEPT ![t] = IF isShuttingDown THEN "idle" ELSE "query"]
  /\ UNCHANGED <<supVars, procVars, scr, lb, shutVars, pmVars, supExit,
                 histVars>>

\* Mutant: the launch branch leaves currentScreenName as it was.
TickLaunch_KeepsOldName(t, s) ==
  /\ browser' = 0
  /\ scr' = [scr EXCEPT ![t] = s]
  /\ pc' = [pc EXCEPT ![t] = "find"]
  /\ UNCHANGED <<currentScreenName, bProc, lb>>

\* "Screen connected but no browser (or browser was closed)": a stale
\* handle is dropped, the name recorded and launchBrowser(s) awaited.
TickLaunch(t, s) ==
  /\ browser' = 0
  /\ currentScreenName' = s
  /\ scr' = [scr EXCEPT ![t] = s]
  /\ pc' = [pc EXCEPT ![t] = "find"]
  /\ UNCHANGED <<bProc, lb>>

\* Mutant: the handle is nulled only inside `if (isBrowserRunning())`.
TickScreenGone_KeepsDeadBrowser(t) ==
  IF isBrowserRunning
    THEN /\ bProc' = KillB(browser, "term")
         /\ lb' = [lb EXCEPT ![t] = browser]
         /\ pc' = [pc EXCEPT ![t] = "closeGone"]
         /\ UNCHANGED <<browser, currentScreenName, scr>>
    ELSE /\ pc' = [pc EXCEPT ![t] = "idle"]
         /\ UNCHANGED <<browser, currentScreenName, bProc, scr, lb>>

\* "Screen disconnected": a running browser is closed first (close() sends
\* SIGTERM and is awaited), then browser and currentScreenName are nulled.
TickScreenGone(t) ==
  IF isBrowserRunning
    THEN /\ bProc' = KillB(browser, "term")
         /\ lb' = [lb EXCEPT ![t] = browser]
         /\ pc' = [pc EXCEPT ![t] = "closeGone"]
         /\ UNCHANGED <<browser, currentScreenName, scr>>
    ELSE /\ browser' = 0
         /\ currentScreenName' = NoScreen
         /\ pc' = [pc EXCEPT ![t] = "idle"]
         /\ UNCHANGED <<bProc, scr, lb>>

\* Mutant: the new browser is launched without closing the old one.
TickScreenChanged_NoClose(t, s) ==
  /\ currentScreenName' = s
  /\ scr' = [scr EXCEPT ![t] = s]
  /\ pc' = [pc EXCEPT ![t] = "find"]
  /\ UNCHANGED <<browser, bProc, lb>>

\* "Screen changed (different screen connected)": the running browser is
\* closed (SIGTERM, awaited) before anything else.
TickScreenChanged(t, s) ==
  /\ bProc' = KillB(browser, "term")
  /\ lb' = [lb EXCEPT ![t] = browser]
  /\ scr' = [scr EXCEPT ![t] = s]
  /\ pc' = [pc EXCEPT ![t] = "closeChanged"]
  /\ UNCHANGED <<browser, currentScreenName>>

\* None of the three branches applies: the callback ends.
TickNoChange(t) ==
  /\ pc' = [pc EXCEPT ![t] = "idle"]
  /\ UNCHANGED <<browser, currentScreenName, bProc, scr, lb>>

\* The callback after `await findSecondaryScreen()` returned s (NoScreen
\* for null, which is also what a failed display query yields).
TickDetected(t, s) ==
  /\ Running
  /\ pc[t] = "query"
  /\ IF s # NoScreen /\ ~isBrowserRunning
       THEN TickLaunch(t, s)
       ELSE IF s = NoScreen /\ browser # 0
       THEN TickScreenGone(t)
       ELSE IF s # NoScreen /\ isBrowserRunning /\ s # currentScreenName
       THEN TickScreenChanged(t, s)
       ELSE TickNoChange(t)
  /\ UNCHANGED <<managedProcess, wCommand, isShuttingDown,
                 screenMonitorInterval, wProc, shutVars, pmVars, supExit,
                 histVars>>

TickQueried(t) == \E s \in ScreenOpt : TickDetected(t, s)

\* close() of a BrowserInstance returns: the exit was seen within the 5 s
\* timeout, or the timeout passed and SIGKILL is sent (KillB leaves an
\* exited process alone).
CloseReturn(b) == KillB(b, "kill")

\* Mutant: after the close for a vanished screen the name is kept.
TickClosed_KeepsScreenName(t) ==
  /\ Running
  /\ pc[t] \in {"closeGone", "closeChanged"}
  /\ bProc' = CloseReturn(lb[t])
  /\ IF pc[t] = "closeGone"
       THEN /\ browser' = 0
            /\ pc' = [pc EXCEPT ![t] = "idle"]
            /\ UNCHANGED currentScreenName
       ELSE /\ currentScreenName' = scr[t]
            /\ pc' = [pc EXCEPT ![t] = "find"]
            /\ UNCHANGED browser
  /\ lb' = [lb EXCEPT ![t] = 0]
  /\ UNCHANGED scr
  /\ UNCHANGED <<managedProcess, wCommand, isShuttingDown,
                 screenMonitorInterval, wProc, shutVars, pmVars, supExit,
                 histVars>>

\* `await browser.close()` in the tick has returned.
TickClosed(t) ==
  /\ Running
  /\ pc[t] \in {"closeGone", "closeChanged"}
  /\ bProc' = CloseReturn(lb[t])
  /\ IF pc[t] = "closeGone"
       THEN /\ browser' = 0
            /\ currentScreenName' = NoScreen
            /\ pc' = [pc EXCEPT ![t] = "idle"]
       ELSE /\ currentScreenName' = scr[t]
            /\ pc' = [pc EXCEPT ![t] = "find"]
            /\ UNCHANGED browser
  /\ lb' = [lb EXCEPT ![t] = 0]
  /\ UNCHANGED scr
  /\ UNCHANGED <<managedProcess, wCommand, isShuttingDown,
                 screenMonitorInterval, wProc, shutVars, pmVars, supExit,
                 histVars>>

\* -------------------------------------------------- shutdown sequencer
\* The variables handlePowerDisconnect may write before its first await.
seqVars == <<browser, isShuttingDown, screenMonitorInterval, bProc, wProc,
             pcShut, shutB, shutW, steps, entered, lateTriggers>>

\* stopScreenMonitor(): clearInterval and null the handle.
stopScreenMonitor == screenMonitorInterval' = FALSE

\* executeShutdown(): `sudo shutdown now` is spawned and its exit awaited.
executeShutdown(log) ==
  /\ steps' = Append(log, "shutdown")
  /\ pcShut' = "P_shutdown"

\* handlePowerDisconnect from "2. Close browser" on.  close() sends SIGTERM
\* and polls; on a process that has already exited it returns without a
\* timed wait, and the handler runs on to executeShutdown.
PowerBrowserStep(log) ==
  IF browser # 0
    THEN IF BrowserAlive(browser)
           THEN /\ bProc' = KillB(browser, "term")
                /\ shutB' = browser
                /\ pcShut' = "P_close"
                /\ steps' = Append(log, "close")
                /\ UNCHANGED browser
           ELSE /\ browser' = 0
                /\ executeShutdown(log \o <<"close", "closed">>)
                /\ UNCHANGED <<bProc, shutB>>
    ELSE /\ executeShutdown(log)
         /\ UNCHANGED <<browser, bProc, shutB>>

\* Mutant: the ignored event clears the latch instead of leaving it.
PowerIgnored_ResetsLatch ==
  /\ lateTriggers' = lateTriggers \cup {"power"}
  /\ isShuttingDown' = FALSE
  /\ UNCHANGED <<browser, screenMonitorInterval, bProc, wProc, pcShut,
                 shutB, shutW, steps, entered>>

\* handlePowerDisconnect under the latch: "Already shutting down,
\* ignoring...".
PowerIgnored ==
  /\ lateTriggers' = lateTriggers \cup {"power"}
  /\ UNCHANGED <<browser, isShuttingDown, screenMonitorInterval, bProc,
                 wProc, pcShut, shutB, shutW, steps, entered>>

\* handlePowerDisconnect past the latch check, up to its first timed await:
\* the latch is set, the screen monitor stopped, and a running workload is
\* sent SIGINT and its `exited` promise awaited.
PowerSequence ==
  /\ isShuttingDown' = TRUE
  /\ entered' = IF entered = "none" THEN "power" ELSE entered
  /\ stopScreenMonitor
  /\ UNCHANGED lateTriggers
  /\ IF managedProcess # 0 /\ isRunning(managedProcess)
       THEN /\ wProc' = KillW(managedProcess, "int")
            /\ shutW' = managedProcess
            /\ pcShut' = "P_waitW"
            /\ steps' = steps \o <<"halt", "interrupt">>
            /\ UNCHANGED <<browser, bProc, shutB>>
       ELSE /\ PowerBrowserStep(Append(steps, "halt"))
            /\ UNCHANGED <<wProc, shutW>>

\* Mutant: the re-entrancy check of handlePowerDisconnect is missing.
handlePowerDisconnect_NoLatchCheck == PowerSequence

handlePowerDisconnect ==
  IF isShuttingDown THEN PowerIgnored ELSE PowerSequence

\* Mutant: the power path goes on without awaiting the workload's exit.
PowerWorkloadExited_NoAwait ==
  /\ Running
  /\ pcShut = "P_waitW"
  /\ PowerBrowserStep(Append(steps, "stopped"))
  /\ shutW' = 0
  /\ UNCHANGED <<managedProcess, wCommand, isShuttingDown,
                 currentScreenName, screenMonitorInterval, wProc, ctxVars,
                 pmVars, supExit, entered, lateTriggers>>

\* `await managedProcess.process.exited` in handlePowerDisconnect resolved.
PowerWorkloadExited ==
  /\ Running
  /\ pcShut = "P_waitW"
  /\ ~WorkloadAlive(shutW)
  /\ PowerBrowserStep(Append(steps, "stopped"))
  /\ shutW' = 0
  /\ UNCHANGED <<managedProcess, wCommand, isShuttingDown,
                 currentScreenName, screenMonitorInterval, wProc, ctxVars,
                 pmVars, supExit, entered, lateTriggers>>

\* `await browser.close()` in handlePowerDisconnect returned.
PowerBrowserClosed ==
  /\ Running
  /\ pcShut = "P_close"
  /\ bProc' = CloseReturn(shutB)
  /\ browser' = 0
  /\ shutB' = 0
  /\ executeShutdown(Append(steps, "closed"))
  /\ UNCHANGED <<managedProcess, wCommand, isShuttingDown,
                 currentScreenName, screenMonitorInterval, wProc, ctxVars,
                 shutW, pmVars, supExit, entered, lateTriggers>>

\* The shutdown command has run: `process.exit(0)`.
PowerShutdownDone ==
  /\ Running
  /\ pcShut = "P_shutdown"
  /\ ProcessExit(0, steps)
  /\ UNCHANGED <<supVars, procVars, entered, lateTriggers>>

\* handleManualTermination from "Close browser" on.
ManualBrowserStep(log) ==
  IF browser # 0 /\ BrowserAlive(browser)
    THEN /\ bProc' = KillB(browser, "term")
         /\ shutB' = browser
         /\ shutW' = 0
         /\ pcShut' = "M_close"
         /\ steps' = Append(log, "close")
         /\ UNCHANGED <<supExit, ctxVars, pmVars>>
    ELSE /\ ProcessExit(0, IF browser # 0 THEN log \o <<"close", "closed">>
                                          ELSE log)
         /\ UNCHANGED bProc

\* Mutant: a signal under the latch is noted but the supervisor keeps
\* waiting for the sequence in progress.
ForceExit_KeepsWaiting ==
  /\ lateTriggers' = lateTriggers \cup {"signal"}
  /\ UNCHANGED <<isShuttingDown, screenMonitorInterval, bProc, wProc,
                 entered, supExit, steps, shutVars, ctxVars, pmVars>>

\* handleManualTermination under the latch: "Force exiting...".
ForceExit ==
  /\ ProcessExit(1, steps)
  /\ lateTriggers' = lateTriggers \cup {"signal"}
  /\ UNCHANGED <<isShuttingDown, screenMonitorInterval, bProc, wProc,
                 entered>>

\* Mutant: gracefulStop() is called but not awaited.
ManualSequence_NoAwait ==
  /\ isShuttingDown' = TRUE
  /\ entered' = IF entered = "none" THEN "manual" ELSE entered
  /\ stopScreenMonitor
  /\ UNCHANGED lateTriggers
  /\ IF managedProcess # 0 /\ isRunning(managedProcess)
       THEN /\ wProc' = KillW(managedProcess, "int")
            /\ ManualBrowserStep(steps \o <<"halt", "interrupt">>)
       ELSE /\ ManualBrowserStep(Append(steps, "halt"))
            /\ UNCHANGED wProc

\* handleManualTermination past the latch check, up to its first timed
\* await.  gracefulStop is entered with the process running: SIGINT, then
\* the 100 ms poll loop.
ManualSequence ==
  /\ isShuttingDown' = TRUE
  /\ entered' = IF entered = "none" THEN "manual" ELSE entered
  /\ stopScreenMonitor
  /\ UNCHANGED lateTriggers
  /\ IF managedProcess # 0 /\ isRunning(managedProcess)
       THEN /\ wProc' = KillW(managedProcess, "int")
            /\ shutW' = managedProcess
            /\ pcShut' = "M_stop"
            /\ steps' = steps \o <<"halt", "interrupt">>
            /\ UNCHANGED <<bProc, shutB, supExit, ctxVars, pmVars>>
       ELSE /\ ManualBrowserStep(Append(steps, "halt"))
            /\ UNCHANGED wProc

\* Mutant: the re-entrancy check of handleManualTermination is missing.
handleManualTermination_NoLatchCheck == ManualSequence

handleManualTermination ==
  IF isShuttingDown THEN ForceExit ELSE ManualSequence

\* SIGINT or SIGTERM is delivered to the supervisor once main() has
\* installed the handler.
Signal ==
  /\ Running
  /\ pc[MainCtx] # "start"
  /\ handleManualTermination
  /\ UNCHANGED <<browser, managedProcess, wCommand, currentScreenName>>

\* Mutant: at the ceiling gracefulStop gives up without the forced kill.
ManualStopPoll_NoKill ==
  /\ Running
  /\ pcShut = "M_stop"
  /\ ManualBrowserStep(Append(steps, "stopped"))
  /\ UNCHANGED wProc
  /\ UNCHANGED <<supVars, entered, lateTriggers>>

\* gracefulStop's poll loop: the exit is seen (returns true), or
\* GRACEFUL_TIMEOUT_MS has elapsed: SIGKILL and a 1000 ms settle wait.
ManualStopPoll ==
  /\ Running
  /\ pcShut = "M_stop"
  /\ IF ~WorkloadAlive(shutW)
       THEN /\ ManualBrowserStep(Append(steps, "stopped"))
            /\ UNCHANGED wProc
       ELSE /\ wProc' = KillW(shutW, "kill")
            /\ pcShut' = "M_settle"
            /\ UNCHANGED <<bProc, shutB, shutW, supExit, steps, ctxVars,
                           pmVars>>
  /\ UNCHANGED <<supVars, entered, lateTriggers>>

\* Mutant: after the forced kill gracefulStop waits for the exit itself
\* instead of the settle delay.
ManualSettled_AwaitsExit ==
  /\ Running
  /\ pcShut = "M_settle"
  /\ ~WorkloadAlive(shutW)
  /\ ManualBrowserStep(Append(steps, "stopped"))
  /\ UNCHANGED <<supVars, wProc, entered, lateTriggers>>

\* The settle wait is over: gracefulStop returns false.
ManualSettled ==
  /\ Running
  /\ pcShut = "M_settle"
  /\ ManualBrowserStep(Append(steps, "stopped"))
  /\ UNCHANGED <<supVars, wProc, entered, lateTriggers>>

\* `await browser.close()` in handleManualTermination returned: exit(0).
ManualBrowserClosed ==
  /\ Running
  /\ pcShut = "M_close"
  /\ bProc' = CloseReturn(shutB)
  /\ ProcessExit(0, Append(steps, "closed"))
  /\ UNCHANGED <<supVars, wProc, entered, lateTriggers>>

\* -------------------------------------------------------- power monitor
\* Mutant: the poll timer is armed although no power source was found.
PowerPollFire_WithoutSource ==
  /\ Running
  /\ pmPc \in {"timer", "nosrc"}
  /\ pmPc' = IF pmRunning \/ pmPc = "nosrc" THEN "reading" ELSE "idle"
  /\ UNCHANGED <<supVars, procVars, ctxVars, shutVars, pmRunning, pmStatus,
                 obsVars, supExit, histVars>>

\* The poll timer fires: poll() returns at once when stopped, else it
\* awaits readPowerStatus.
PowerPollFire ==
  /\ Running
  /\ pmPc = "timer"
  /\ pmPc' = IF pmRunning THEN "reading" ELSE "idle"
  /\ UNCHANGED <<supVars, procVars, ctxVars, shutVars, pmRunning, pmStatus,
                 obsVars, supExit, histVars>>

\* Mutant: the callback is invoked on every battery sample, not on the edge.
PowerDisconnected_OnLevel(currentStatus, newStatus) == newStatus = "battery"

\* poll(): `currentStatus === "ac" && newStatus === "battery"`.
PowerDisconnected(currentStatus, newStatus) ==
  currentStatus = "ac" /\ newStatus = "battery"

\* poll() after the read returned newStatus: the ac -> battery edge invokes
\* onPowerDisconnect, the sample is stored, the timer re-armed if running.
PowerPollRead ==
  /\ Running
  /\ pmPc = "reading"
  /\ \E newStatus \in PowerStatus :
       /\ IF PowerDisconnected(pmStatus, newStatus)
            THEN handlePowerDisconnect
            ELSE UNCHANGED seqVars
       /\ pmStatus' = newStatus
  /\ pmPc' = IF pmRunning THEN "timer" ELSE "idle"
  /\ UNCHANGED <<managedProcess, wCommand, currentScreenName, ctxVars,
                 pmRunning, obsVars, supExit>>

\* startPowerMonitor given a callback that counts its invocations, after
\* the first sample s0 was read and the poll timer armed; the supervisor's
\* own state is as at construction and takes no part.
ObservedMonitorInit ==
  /\ \E s0 \in PowerStatus :
       /\ pmStatus = s0
       /\ samples = <<s0>>
  /\ invocations = 0
  /\ stopCalls = 0
  /\ args = <<DashDash, TwoWords>>
  /\ NoCall
  /\ pmRunning = TRUE
  /\ pmPc = "timer"
  /\ browser = 0
  /\ managedProcess = 0
  /\ wCommand = [w \in WorkloadIds |-> NoCommand]
  /\ isShuttingDown = FALSE
  /\ currentScreenName = NoScreen
  /\ screenMonitorInterval = FALSE
  /\ bProc = [b \in BrowserIds |-> "unspawned"]
  /\ wProc = [w \in WorkloadIds |-> "unspawned"]
  /\ pc = [c \in 0..MaxTicks |-> IF c = MainCtx THEN "detect" ELSE "idle"]
  /\ scr = [c \in 0..MaxTicks |-> NoScreen]
  /\ lb = [c \in 0..MaxTicks |-> 0]
  /\ pcShut = "idle"
  /\ shutB = 0
  /\ shutW = 0
  /\ supExit = -1
  /\ steps = <<>>
  /\ entered = "none"
  /\ lateTriggers = {}

\* poll() of that monitor after the read returned newStatus: the callback is
\* invoked on the edge, the sample stored and the timer re-armed.
ObservedPollRead ==
  /\ pmPc = "reading"
  /\ Len(samples) <= MaxSamples
  /\ \E newStatus \in PowerStatus :
       /\ invocations' = IF PowerDisconnected(pmStatus, newStatus)
                           THEN invocations + 1 ELSE invocations
       /\ samples' = Append(samples, newStatus)
       /\ pmStatus' = newStatus
  /\ pmPc' = IF pmRunning THEN "timer" ELSE "idle"
  /\ UNCHANGED <<supVars, procVars, ctxVars, shutVars, pmRunning, stopCalls,
                 callVars, supExit, histVars>>

\* Mutant: stop() clears the flag but leaves the pending timer armed.
ObservedStop_KeepsTimer ==
  /\ stopCalls < MaxStops
  /\ stopCalls' = stopCalls + 1
  /\ pmRunning' = FALSE
  /\ UNCHANGED <<supVars, procVars, ctxVars, shutVars, pmPc, pmStatus,
                 samples, invocations, callVars, supExit, histVars>>

\* stop() of that monitor is called, at any time and any number of times:
\* isRunning = false, and a pending timer is cleared.  A poll whose read is
\* in flight is not a pending timer, and goes on when the read returns.
ObservedStop ==
  /\ stopCalls < MaxStops
  /\ stopCalls' = stopCalls + 1
  /\ pmRunning' = FALSE
  /\ pmPc' = IF pmPc = "timer" THEN "idle" ELSE pmPc
  /\ UNCHANGED <<supVars, procVars, ctxVars, shutVars, pmStatus, samples,
                 invocations, callVars, supExit, histVars>>

\* --------------------------------------------- functions on their own
\* A function is called on its own, on one of its inputs: parseCommand on
\* the command string of a command line, findSecondaryScreen with the list
\* its display query returned, gracefulStop on a workload process that is
\* running or has exited, or moveFirefoxToScreen with a target screen and
\* the answers the window tool gives.  The supervisor takes no part.
ObservedCallInit ==
  /\ \/ /\ args \in {<<DashDash, str>> : str \in Strings \cup {ExampleCommand}}
        /\ screens = <<>>
        /\ managedProcess = 0
        /\ wProc = [w \in WorkloadIds |-> "unspawned"]
        /\ wCommand = [w \in WorkloadIds |-> NoCommand]
        /\ secondary = NullScreen
        /\ isStartup = FALSE
        /\ windowId = NoWindow
        /\ wmctrl = <<>>
     \/ /\ args = <<DashDash, TwoWords>>
        /\ screens \in ScreenLists
        /\ managedProcess = 0
        /\ wProc = [w \in WorkloadIds |-> "unspawned"]
        /\ wCommand = [w \in WorkloadIds |-> NoCommand]
        /\ secondary = NullScreen
        /\ isStartup = FALSE
        /\ windowId = NoWindow
        /\ wmctrl = <<>>
     \/ /\ args = <<DashDash, TwoWords>>
        /\ screens = <<>>
        /\ managedProcess = 1
        /\ wProc \in [WorkloadIds -> {"unspawned", "running", "exited"}]
        /\ wProc[1] # "unspawned"
        /\ \A w \in WorkloadIds \ {1} : wProc[w] = "unspawned"
        /\ wCommand = [w \in WorkloadIds |->
                         IF w = 1 THEN command ELSE NoCommand]
        /\ secondary = NullScreen
        /\ isStartup = FALSE
        /\ windowId = NoWindow
        /\ wmctrl = <<>>
     \/ /\ args = <<DashDash, TwoWords>>
        /\ screens = <<>>
        /\ managedProcess = 0
        /\ wProc = [w \in WorkloadIds |-> "unspawned"]
        /\ wCommand = [w \in WorkloadIds |-> NoCommand]
        /\ secondary \in Targets
        /\ isStartup \in BOOLEAN
        /\ windowId \in WindowSearch
        /\ wmctrl \in [1..maxAttempts(isStartup) -> MoveReply]
  /\ moved = FALSE
  /\ parts = <<>>
  /\ returned = "none"
  /\ elapsed = 0
  /\ sent = <<>>
  /\ graceful = FALSE
  /\ samples = <<>>
  /\ invocations = 0
  /\ stopCalls = 0
  /\ browser = 0
  /\ isShuttingDown = FALSE
  /\ currentScreenName = NoScreen
  /\ screenMonitorInterval = FALSE
  /\ bProc = [b \in BrowserIds |-> "unspawned"]
  /\ pc = [c \in 0..MaxTicks |-> IF c = MainCtx THEN "start" ELSE "idle"]
  /\ scr = [c \in 0..MaxTicks |-> NoScreen]
  /\ lb = [c \in 0..MaxTicks |-> 0]
  /\ pcShut = "idle"
  /\ shutB = 0
  /\ shutW = 0
  /\ pmPc = "off"
  /\ pmRunning = FALSE
  /\ pmStatus = "unknown"
  /\ supExit = -1
  /\ steps = <<>>
  /\ entered = "none"
  /\ lateTriggers = {}

\* The variables no function under observation writes.
idleVars == <<browser, managedProcess, wCommand, isShuttingDown,
              currentScreenName, screenMonitorInterval, bProc, ctxVars,
              shutB, shutW, pmPc, pmRunning, pmStatus, samples, invocations,
              stopCalls, args, screens, isStartup, windowId, wmctrl,
              supExit, histVars>>

\* `const parts = parseCommand(command)` has run.
ObservedParse ==
  /\ returned = "none"
  /\ pcShut = "idle"
  /\ parts' = parseCommand(command)
  /\ returned' = "parseCommand"
  /\ UNCHANGED <<idleVars, wProc, pcShut, secondary, elapsed, sent, graceful,
                 moved>>

\* findSecondaryScreen has returned, detectScreens having returned screens.
ObservedFindSecondary ==
  /\ returned = "none"
  /\ pcShut = "idle"
  /\ secondary' = findSecondaryScreen(screens)
  /\ returned' = "findSecondaryScreen"
  /\ UNCHANGED <<idleVars, wProc, pcShut, parts, elapsed, sent, graceful,
                 moved>>

\* moveFirefoxToScreen(secondary, isStartup) has returned.
ObservedMove ==
  /\ returned = "none"
  /\ pcShut = "idle"
  /\ secondary \in Targets
  /\ moved' = moveFirefoxToScreen(secondary, isStartup, windowId, wmctrl)
  /\ returned' = "moveFirefoxToScreen"
  /\ UNCHANGED <<idleVars, wProc, pcShut, secondary, parts, elapsed, sent,
                 graceful>>

\* Mutant: the forced kill comes with the first poll that finds the process
\* alive.
CeilingReached_AtFirstPoll(e) == e >= 1

\* gracefulStop: `elapsed >= GRACEFUL_TIMEOUT_MS`.
CeilingReached(e) == e >= MaxPolls

\* gracefulStop() is called: it returns true for a process that has exited;
\* otherwise SIGINT, startTime, and the first round of the poll loop, which
\* finds no time elapsed and awaits its 100 ms timer.
ObservedStopCall ==
  /\ returned = "none"
  /\ managedProcess # 0
  /\ pcShut = "idle"
  /\ IF ~isRunning(managedProcess)
       THEN /\ graceful' = TRUE
            /\ returned' = "gracefulStop"
            /\ UNCHANGED <<wProc, sent, elapsed, pcShut>>
       ELSE /\ wProc' = KillW(managedProcess, "int")
            /\ sent' = Append(sent, "SIGINT")
            /\ elapsed' = 0
            /\ pcShut' = "M_stop"
            /\ UNCHANGED <<graceful, returned>>
  /\ UNCHANGED <<idleVars, secondary, parts, moved>>

\* The poll timer has fired, on time or late: the exit is seen and true
\* returned; or the ceiling is reached, SIGKILL sent and the settle wait
\* begun; or the timer is awaited again.
ObservedStopPoll ==
  /\ pcShut = "M_stop"
  /\ IF ~isRunning(managedProcess)
       THEN /\ graceful' = TRUE
            /\ returned' = "gracefulStop"
            /\ pcShut' = "idle"
            /\ UNCHANGED <<wProc, sent, elapsed>>
       ELSE \E late \in 0..1 :
              LET now == elapsed + 1 + late IN
                /\ elapsed' = now
                /\ IF CeilingReached(now)
                     THEN /\ wProc' = KillW(managedProcess, "kill")
                          /\ sent' = Append(sent, "SIGKILL")
                          /\ pcShut' = "M_settle"
                     ELSE UNCHANGED <<wProc, sent, pcShut>>
                /\ UNCHANGED <<graceful, returned>>
  /\ UNCHANGED <<idleVars, secondary, parts, moved>>

\* The 1000 ms settle wait is over: gracefulStop returns false.
ObservedStopSettled ==
  /\ pcShut = "M_settle"
  /\ graceful' = FALSE
  /\ returned' = "gracefulStop"
  /\ pcShut' = "idle"
  /\ UNCHANGED <<idleVars, wProc, secondary, parts, elapsed, sent, moved>>

\* ---------------------------------------------------------- environment
\* A browser process ends: closed by the user, crashed, or on a signal.
BrowserExits(b) ==
  /\ Running
  /\ BrowserAlive(b)
  /\ bProc' = [bProc EXCEPT ![b] = "exited"]
  /\ UNCHANGED <<supVars, wProc, ctxVars, shutVars, pmVars, supExit,
                 histVars>>

\* A workload process ends, of its own accord or on a signal.
WorkloadExits(w) ==
  /\ Running
  /\ WorkloadAlive(w)
  /\ wProc' = [wProc EXCEPT ![w] = "exited"]
  /\ UNCHANGED <<supVars, bProc, ctxVars, shutVars, pmVars, supExit,
                 histVars>>

\* ------------------------------------------------------- specification
Launch == \E c \in 0..MaxTicks : LaunchFind(c) \/ LaunchWait(c) \/ LaunchMove(c)
Main == MainStart \/ MainDetected \/ MainPowerMonitorStarted
          \/ MainWorkloadExited \/ MainBackoffDone
Tick == TickFire \/ \E t \in Ticks : TickQueried(t) \/ TickClosed(t)
PowerPath == PowerWorkloadExited \/ PowerBrowserClosed \/ PowerShutdownDone
ManualPath == Signal \/ ManualStopPoll \/ ManualSettled \/ ManualBrowserClosed
PowerMonitor == PowerPollFire \/ PowerPollRead
Environment == (\E b \in BrowserIds : BrowserExits(b))
                 \/ (\E w \in WorkloadIds : WorkloadExits(w))

Next == Launch \/ Main \/ Tick \/ PowerPath \/ ManualPath \/ PowerMonitor
          \/ Environment

Spec == Init /\ [][Next]_vars

\* The supervisor where every callback of the screen monitor is over within
\* SCREEN_DETECT_INTERVAL_MS (5000 ms): the timer finds no earlier callback
\* in flight when it fires.  Everything else is as in Spec.
TickFireInTime ==
  /\ IdleTicks = Ticks
  /\ TickFire

TimelyTick == TickFireInTime \/ \E t \in Ticks : TickQueried(t) \/ TickClosed(t)

TimelyNext == Launch \/ Main \/ TimelyTick \/ PowerPath \/ ManualPath
                \/ PowerMonitor \/ Environment

TimelySpec == Init /\ [][TimelyNext]_vars

\* The supervisor on a supply that fails at most once and whose status can
\* always be read: startPowerMonitor finds no power source or reads "ac",
\* and a poll reads "ac" or "battery", never "ac" after "battery".  The
\* screen monitor's callbacks overlap as in Spec.
MainOnMains ==
  /\ MainPowerMonitorStarted
  /\ pmPc' = "nosrc" \/ pmStatus' = "ac"

PowerPollReadOnce ==
  /\ PowerPollRead
  /\ pmStatus' # "unknown"
  /\ pmStatus = "battery" => pmStatus' = "battery"

OutageNext == Launch \/ MainStart \/ MainDetected \/ MainOnMains
                \/ MainWorkloadExited \/ MainBackoffDone \/ Tick \/ PowerPath
                \/ ManualPath \/ PowerPollFire \/ PowerPollReadOnce
                \/ Environment

OutageSpec == Init /\ [][OutageNext]_vars

\* The supervisor started with a command line that names no command: it
\* gets as far as main()'s startProcess at most.
StartupInit ==
  /\ args \in BlankArgs
  /\ NoCall
  /\ browser = 0
  /\ managedProcess = 0
  /\ wCommand = [w \in WorkloadIds |-> NoCommand]
  /\ isShuttingDown = FALSE
  /\ currentScreenName = NoScreen
  /\ screenMonitorInterval = FALSE
  /\ bProc = [b \in BrowserIds |-> "unspawned"]
  /\ wProc = [w \in WorkloadIds |-> "unspawned"]
  /\ pc = [c \in 0..MaxTicks |-> IF c = MainCtx THEN "start" ELSE "idle"]
  /\ scr = [c \in 0..MaxTicks |-> NoScreen]
  /\ lb = [c \in 0..MaxTicks |-> 0]
  /\ pcShut = "idle"
  /\ shutB = 0
  /\ shutW = 0
  /\ pmPc = "off"
  /\ pmRunning = FALSE
  /\ pmStatus = "unknown"
  /\ samples = <<>>
  /\ invocations = 0
  /\ stopCalls = 0
  /\ supExit = -1
  /\ steps = <<>>
  /\ entered = "none"
  /\ lateTriggers = {}

StartupNext ==
  \/ MainStart
  \/ MainDetected
  \/ LaunchFind(MainCtx)
  \/ LaunchWait(MainCtx)
  \/ LaunchMove(MainCtx)
  \/ Signal
  \/ \E b \in BrowserIds : BrowserExits(b)

StartupSpec == StartupInit /\ [][StartupNext]_vars

\* The functions on their own; the process gracefulStop is called on may
\* exit at any time.
CallNext ==
  \/ ObservedParse
  \/ ObservedFindSecondary
  \/ ObservedMove
  \/ ObservedStopCall
  \/ ObservedStopPoll
  \/ ObservedStopSettled
  \/ \E w \in WorkloadIds : WorkloadExits(w)

CallSpec == ObservedCallInit /\ [][CallNext]_vars

\* The power monitor on its own, under the counting callback.
MonitorNext == PowerPollFire \/ ObservedPollRead \/ ObservedStop

MonitorSpec == ObservedMonitorInit /\ [][MonitorNext]_vars

TypeOK ==
  /\ browser \in 0..MaxBrowsers
  /\ managedProcess \in 0..MaxWorkloads
  /\ wCommand \in [WorkloadIds -> {NoCommand, command}]
  /\ args \in Seq(Seq(STRING))
  /\ screens \in ScreenLists
  /\ secondary \in ScreenInfo \cup {NullScreen}
  /\ parts \in Seq(Seq(STRING))
  /\ returned \in {"none", "findSecondaryScreen", "parseCommand",
                   "gracefulStop", "moveFirefoxToScreen"}
  /\ isStartup \in BOOLEAN
  /\ windowId \in WindowSearch
  /\ wmctrl \in Seq(MoveReply)
  /\ moved \in BOOLEAN
  /\ elapsed \in 0..(MaxPolls + 2)
  /\ sent \in Seq({"SIGINT", "SIGKILL"})
  /\ graceful \in BOOLEAN
  /\ isShuttingDown \in BOOLEAN
  /\ currentScreenName \in ScreenOpt
  /\ screenMonitorInterval \in BOOLEAN
  /\ bProc \in [BrowserIds -> {"unspawned", "running", "term", "kill", "exited"}]
  /\ wProc \in [WorkloadIds -> {"unspawned", "running", "int", "kill", "exited"}]
  /\ pc[MainCtx] \in {"start", "detect", "find", "wait", "move", "startPM",
                      "waitExit", "backoff", "cleanup", "done", "exited"}
  /\ \A t \in Ticks : pc[t] \in {"idle", "query", "find", "wait", "move",
                                 "closeGone", "closeChanged", "exited"}
  /\ pcShut \in {"idle", "P_waitW", "P_close", "P_shutdown", "M_stop",
                 "M_settle", "M_close", "exited"}
  /\ pmPc \in {"off", "nosrc", "timer", "reading", "idle", "exited"}
  /\ pmStatus \in PowerStatus
  /\ samples \in Seq(PowerStatus) /\ Len(samples) <= MaxSamples + 1
  /\ invocations \in 0..MaxSamples
  /\ stopCalls \in 0..MaxStops
  /\ supExit \in {-1, 0, 1}
  /\ entered \in {"none", "power", "manual"}

\* Fairness of the event loop: a continuation whose awaited promise has
\* resolved or whose timer is due is run, and a process sent SIGKILL ends.
\* Nothing obliges a process to exit of its own accord or on SIGINT or
\* SIGTERM, a signal or a power edge to arrive, or a display to change.
KilledExits ==
  \/ \E b \in BrowserIds : bProc[b] = "kill" /\ BrowserExits(b)
  \/ \E w \in WorkloadIds : wProc[w] = "kill" /\ WorkloadExits(w)

FairSpec ==
  /\ Spec
  /\ WF_vars(Launch)
  /\ WF_vars(Main)
  /\ WF_vars(Tick)
  /\ WF_vars(PowerPath)
  /\ WF_vars(ManualStopPoll \/ ManualSettled \/ ManualBrowserClosed)
  /\ WF_vars(PowerMonitor)
  /\ WF_vars(KilledExits)

\* ---------------------------------------------------------------- claims
Has(e) == \E i \in 1..Len(steps) : steps[i] = e

InFlightTicks == {t \in Ticks : pc[t] \notin {"idle", "exited"}}

\* C1: once shuttingDown is set, no browser process is launched any more:
\* no step taken under the latch spawns a browser process.
C1_NoLaunchAfterLatch ==
  [][isShuttingDown =>
       \A b \in BrowserIds : bProc[b] = "unspawned" => bProc'[b] = "unspawned"]_vars

\* C2: in every reachable state at most one browser process spawned by the
\* supervisor is alive (a process already sent SIGKILL is not counted).
C2_AtMostOneBrowserAlive ==
  Cardinality({b \in BrowserIds : bProc[b] \in {"running", "term"}}) <= 1

\* C3: at most one screen-poll tick is in progress at any time.
C3_TicksDoNotOverlap == Cardinality(InFlightTicks) <= 1

\* C4: no reachable state has a tick with a browser close or launch in
\* flight while the shutdown sequence is closing the browser.
C4_TickAndShutdownSerialized ==
  ~ /\ pcShut \in {"P_close", "M_close"}
    /\ \E t \in Ticks :
         pc[t] \in {"closeGone", "closeChanged", "find", "wait", "move"}

\* C5: the system shutdown command is never issued while a workload process
\* is still running: once it has been issued, no workload is alive.
C5_ShutdownAfterWorkloadExit ==
  Has("shutdown") => \A w \in WorkloadIds : ~WorkloadAlive(w)

\* The power path interrupted a running workload, saw it exit and went on
\* to issue the shutdown command.
C5_Witness ==
  /\ entered = "power"
  /\ Has("interrupt")
  /\ Has("stopped")
  /\ Has("shutdown")
  /\ Running

\* C6: after a power-disconnect event entered the sequence, the system
\* shutdown command is eventually reached (or the supervisor has exited),
\* even if the workload never exits in response to the interrupt.
C6_PowerPathBounded ==
  (entered = "power") ~> (Has("shutdown") \/ ~Running)

\* The place of a step in the documented shutdown sequence.
Rank(e) ==
  CASE e = "halt" -> 1
    [] e = "interrupt" -> 2
    [] e = "stopped" -> 3
    [] e = "close" -> 4
    [] e = "closed" -> 5
    [] e = "shutdown" -> 6
    [] e = "exit" -> 7

\* C7: in both shutdown paths the steps occur in strict order, each
\* completed before the next starts: poll halted, workload interrupted and
\* its stop awaited, browser closed, then (power path only) the shutdown
\* command, then the clean process exit.
C7_StrictStepOrder ==
  /\ \A i, j \in 1..Len(steps) : i < j => Rank(steps[i]) < Rank(steps[j])
  /\ isShuttingDown => Has("halt") /\ steps[1] = "halt"
  /\ Has("halt") => ~screenMonitorInterval
  /\ Has("stopped") => Has("interrupt")
  /\ Has("stopped") =>
       \A w \in WorkloadIds : wProc[w] \in {"unspawned", "exited", "kill"}
  /\ Has("closed") => Has("close")
  /\ (Has("close") \/ Has("shutdown") \/ Has("exit")) =>
       (Has("interrupt") => Has("stopped"))
  /\ (Has("shutdown") \/ Has("exit")) => (Has("close") => Has("closed"))
  /\ (Has("exit") /\ entered = "power") => Has("shutdown")
  /\ supExit = 0 => Has("exit")

\* The power path has run every step, in order, to the process exit.
C7_Witness ==
  steps = <<"halt", "interrupt", "stopped", "close", "closed", "shutdown",
            "exit">>

\* How often a step has been performed.
Count(e) == Cardinality({i \in 1..Len(steps) : steps[i] = e})

StepsAtMostOnce ==
  \A e \in {"halt", "interrupt", "stopped", "close", "closed", "shutdown",
            "exit"} : Count(e) <= 1

LateTriggerStartsNothing ==
  (isShuttingDown /\ lateTriggers' # lateTriggers) =>
     /\ steps' = steps
     /\ UNCHANGED <<supVars, procVars, entered>>
     /\ \/ UNCHANGED <<shutVars, supExit>>
        \/ supExit' = 1

\* C8: for any sequence of shutdown triggers each shutdown step is performed
\* at most once; a trigger arriving after the sequence was entered starts no
\* second sequence: a power-disconnect event leaves the supervisor's state
\* unchanged, a signal only exits with code 1.
C8_ShutdownStepsOnce == []StepsAtMostOnce /\ [][LateTriggerStartsNothing]_vars

\* A power-disconnect event arrived while a sequence was in progress, and
\* the sequence went on to close the browser.
C8_Witness ==
  /\ "power" \in lateTriggers
  /\ Has("closed")
  /\ Running

\* C9: the system shutdown command is issued only if the sequence was
\* entered by a power-disconnect event.
C9_ShutdownOnlyOnPowerPath == Has("shutdown") => entered = "power"

\* A termination signal entered the sequence, a power-disconnect event
\* occurred while it was in progress, and the supervisor exited cleanly.
C9_Witness ==
  /\ entered = "manual"
  /\ "power" \in lateTriggers
  /\ supExit = 0

\* C10: shuttingDown starts false and, once true, no step sets it back.
C10_LatchOneWay ==
  /\ ~isShuttingDown
  /\ [][isShuttingDown => isShuttingDown']_vars

\* The latch is set and a later trigger has been handled under it.
C10_Witness ==
  /\ isShuttingDown
  /\ "power" \in lateTriggers
  /\ Running

\* A termination signal is handled with the latch already set.
SecondSignal == isShuttingDown /\ Signal

\* The manual path has done its cleanup: the poll is halted, a workload stop
\* that was started has ended (exit seen, or SIGKILL sent after the ceiling)
\* and a browser close that was started has returned.
ManualCleanupDone ==
  /\ Has("halt")
  /\ ~screenMonitorInterval
  /\ Has("interrupt") => Has("stopped")
  /\ \A w \in WorkloadIds : wProc[w] \notin {"running", "int"}
  /\ Has("close") => Has("closed")

\* The continuations of handleManualTermination, and how far it has come.
ManualStep == ManualStopPoll \/ ManualSettled \/ ManualBrowserClosed

ManualRank ==
  CASE pcShut = "M_stop" -> 1
    [] pcShut = "M_settle" -> 2
    [] pcShut = "M_close" -> 3
    [] pcShut = "exited" -> 4
    [] OTHER -> 0

\* C11: a termination signal received while shuttingDown is already true
\* makes the supervisor exit at once with code 1, whatever stop or close is
\* in progress, and code 1 has no other cause; after a single termination
\* signal the exit with code 0 is reached, after cleanup: while the manual
\* path runs one of its timed continuations is always due, each of them
\* brings it strictly nearer the exit, and nothing sets it back.
C11_SignalExitCodes ==
  /\ [][SecondSignal => supExit' = 1]_vars
  /\ []((supExit = 1 /\ entered # "none") => "signal" \in lateTriggers)
  /\ []((supExit = 0 /\ entered = "manual") => ManualCleanupDone)
  /\ []((entered = "manual" /\ Running) => ENABLED ManualStep)
  /\ [][(entered = "manual" /\ ManualStep) => ManualRank' > ManualRank]_vars
  /\ [][entered = "manual" => ManualRank' >= ManualRank]_vars

\* A second signal arrived while the interrupted workload was still running:
\* the supervisor exited with code 1 without waiting for it.
C11_Witness ==
  /\ supExit = 1
  /\ entered = "manual"
  /\ \E w \in WorkloadIds : wProc[w] = "int"

\* A step that starts workload process w.
Spawns(w) == wProc[w] = "unspawned" /\ wProc'[w] = "running"

\* The restart at the end of the backoff wait: a new process, started with
\* the command string of the one it replaces, becomes managedProcess and its
\* exit is awaited in turn.
Restarted ==
  \E w \in WorkloadIds :
    /\ Spawns(w)
    /\ managedProcess # 0
    /\ wCommand'[w] = wCommand[managedProcess]
    /\ managedProcess' = w
    /\ pc'[MainCtx] = "waitExit"

\* C12: while shuttingDown is false every workload exit is observed and
\* followed by the backoff wait, and the end of the wait by the spawn of a
\* new workload with the identical command string, whose exit is awaited the
\* same way (the model stops spawning at MaxWorkloads processes).
C12_RestartAfterEveryExit ==
  /\ []((Running /\ pc[MainCtx] = "waitExit"
           /\ ~WorkloadAlive(managedProcess)) => ENABLED MainWorkloadExited)
  /\ [][(MainWorkloadExited /\ ~isShuttingDown) =>
          pc'[MainCtx] = "backoff"]_vars
  /\ []((Running /\ pc[MainCtx] = "backoff" /\ UnspawnedW # {}) =>
          ENABLED MainBackoffDone)
  /\ [][(MainBackoffDone /\ ~isShuttingDown) => Restarted]_vars

\* The first workload exited with the latch clear and the second one is
\* running under the same command string.
C12_Witness ==
  /\ ~isShuttingDown
  /\ wProc[1] = "exited"
  /\ managedProcess = 2
  /\ wProc[2] = "running"
  /\ wCommand[2] = wCommand[1]

\* C13: no workload process is ever started in a state where shuttingDown
\* is true, whether the latch was set before the exit was observed or during
\* the backoff wait; managedProcess is not replaced under the latch either.
C13_NoSpawnUnderLatch ==
  [][isShuttingDown =>
       /\ \A w \in WorkloadIds : ~Spawns(w)
       /\ managedProcess' = managedProcess]_vars

\* The latch was set during the backoff wait that followed a workload exit,
\* and the loop has resumed from the wait without a restart.
C13_Witness ==
  /\ isShuttingDown
  /\ Running
  /\ pc[MainCtx] = "done"
  /\ managedProcess = 1
  /\ wProc[1] = "exited"
  /\ wProc[2] = "unspawned"
  /\ Has("halt") /\ ~Has("interrupt")

\* C14: at most one workload process spawned by the supervisor is alive at
\* any time: a workload is spawned only when there is none yet or the exit
\* of the previous one has occurred and been observed, and managedProcess is
\* replaced only by main(), at the first start and in the restart loop.
C14_AtMostOneWorkload ==
  /\ [](Cardinality({w \in WorkloadIds : WorkloadAlive(w)}) <= 1)
  /\ [][\A w \in WorkloadIds : Spawns(w) =>
          /\ managedProcess' = w
          /\ \/ managedProcess = 0
             \/ pc[MainCtx] = "backoff" /\ ~WorkloadAlive(managedProcess)]_vars
  /\ [][managedProcess' # managedProcess =>
          \E w \in WorkloadIds : Spawns(w)]_vars

\* The restart loop has replaced an exited workload and the new one is
\* alive while the supervisor awaits its exit.
C14_Witness ==
  /\ wProc[1] = "exited"
  /\ WorkloadAlive(2)
  /\ pc[MainCtx] = "waitExit"

\* The ac -> battery edges among the samples read so far.
Edges ==
  {i \in 2..Len(samples) : samples[i - 1] = "ac" /\ samples[i] = "battery"}

\* C15: after every sample the number of onPowerDisconnect invocations
\* equals the number of adjacent sample pairs (ac, battery): repeats of
\* battery and pairs containing unknown add none.
C15_OneInvocationPerEdge == invocations = Cardinality(Edges)

\* The samples ac, ac, battery, battery, ac, battery have been read and the
\* callback invoked exactly twice.
C15_Witness ==
  /\ samples = <<"ac", "ac", "battery", "battery", "ac", "battery">>
  /\ invocations = 2

\* After this step browser process b has been through a close() that
\* returned: its exit was seen, or SIGKILL was sent when the 5 s ran out.
ClosedBy(b) == bProc'[b] \in {"exited", "kill"}

\* A launchBrowser call in context c goes on for the screen it was given.
LaunchKeepsScreen(c) ==
  (pc[c] \in {"find", "wait", "move"} /\ pc'[c] \in {"wait", "move"}) =>
    scr'[c] = scr[c] /\ scr[c] # NoScreen

\* C16: a tick whose query finds a secondary screen s while no browser is
\* running (browser null, or its process exited) sets currentScreenName to
\* s and calls launchBrowser for s, dropping a stale handle; the call goes on
\* for that screen, and the process it starts and finds alive after the
\* start wait becomes browser.
C16_LaunchWhenNoBrowser ==
  /\ [][\A t \in Ticks, s \in Screens :
          (TickDetected(t, s) /\ ~isBrowserRunning) =>
             /\ currentScreenName' = s
             /\ scr'[t] = s
             /\ pc'[t] = "find"
             /\ browser' = 0]_vars
  /\ [][\A t \in Ticks : LaunchKeepsScreen(t)]_vars
  /\ [](\A t \in Ticks : (Running /\ pc[t] = "find") => ENABLED LaunchFind(t))
  /\ [][\A t \in Ticks : (pc[t] = "move" /\ pc'[t] = "idle") =>
          browser' = lb[t] /\ lb[t] # 0]_vars

\* The first browser's process ended without the supervisor signalling it,
\* and a tick has launched a second one on the detected screen.
C16_Witness ==
  /\ ~isShuttingDown
  /\ InFlightTicks = {}
  /\ bProc[1] = "exited"
  /\ browser = 2
  /\ bProc[2] = "running"
  /\ currentScreenName = "HDMI-1"

\* C17: a tick whose query finds no secondary screen while browser is
\* non-null closes the browser if it is running, and when the tick completes
\* browser and currentScreenName are both null.
C17_CloseWhenScreenGone ==
  /\ [][\A t \in Ticks :
          (TickDetected(t, NoScreen) /\ browser # 0) =>
             IF isBrowserRunning
               THEN /\ pc'[t] = "closeGone"
                    /\ lb'[t] = browser
                    /\ bProc'[browser] \in {"term", "kill"}
               ELSE /\ pc'[t] = "idle"
                    /\ browser' = 0
                    /\ currentScreenName' = NoScreen]_vars
  /\ [](\A t \in Ticks :
          (Running /\ pc[t] = "closeGone") => ENABLED TickClosed(t))
  /\ [][\A t \in Ticks : (pc[t] = "closeGone" /\ pc'[t] = "idle") =>
          /\ ClosedBy(lb[t])
          /\ browser' = 0
          /\ currentScreenName' = NoScreen]_vars

\* A tick found the screen gone, its close() of the running browser ran to
\* the timeout, and the tick completed with both variables null.
C17_Witness ==
  /\ ~isShuttingDown
  /\ InFlightTicks = {}
  /\ bProc = [b \in BrowserIds |-> IF b = 1 THEN "kill" ELSE "unspawned"]
  /\ browser = 0
  /\ currentScreenName = NoScreen

\* C18: a tick whose query finds a screen s while the browser is running
\* under another currentScreenName closes the old browser, and only when the
\* close has returned sets currentScreenName to s and calls launchBrowser
\* for s; with the name unchanged and the browser running the tick changes
\* no supervisor variable and starts or signals no process.
C18_RelaunchOnScreenChange ==
  /\ [][\A t \in Ticks, s \in Screens :
          (TickDetected(t, s) /\ isBrowserRunning) =>
             IF s # currentScreenName
               THEN /\ pc'[t] = "closeChanged"
                    /\ lb'[t] = browser
                    /\ scr'[t] = s
                    /\ bProc'[browser] \in {"term", "kill"}
                    /\ \A b \in BrowserIds \ {browser} : bProc'[b] = bProc[b]
                    /\ UNCHANGED <<browser, currentScreenName>>
               ELSE /\ pc'[t] = "idle"
                    /\ UNCHANGED <<supVars, procVars>>]_vars
  /\ [](\A t \in Ticks :
          (Running /\ pc[t] = "closeChanged") => ENABLED TickClosed(t))
  /\ [][\A t \in Ticks : (pc[t] = "closeChanged" /\ pc'[t] # "closeChanged"
                            /\ Running') =>
          /\ ClosedBy(lb[t])
          /\ currentScreenName' = scr[t]
          /\ pc'[t] = "find"
          /\ scr'[t] = scr[t]]_vars

\* A tick has closed the browser that ran on another screen (the close ran
\* to its timeout) and is launching the new one, the old handle still in
\* place.
C18_Witness ==
  /\ ~isShuttingDown
  /\ \E t \in Ticks :
       /\ InFlightTicks = {t}
       /\ pc[t] = "wait"
       /\ scr[t] = "DP-1"
       /\ currentScreenName = "DP-1"
  /\ browser = 1
  /\ bProc[1] = "kill"

\* No tick, launch or shutdown sequence is in progress.
Quiescent ==
  /\ Running
  /\ InFlightTicks = {}
  /\ pc[MainCtx] \notin {"start", "detect", "find", "wait", "move"}
  /\ pcShut = "idle"

\* C19: outside an operation in progress currentScreenName is non-null
\* exactly when browser is non-null.
C19_NameAndBrowserTogether ==
  Quiescent => (currentScreenName # NoScreen <=> browser # 0)

\* A tick ends by this step (process.exit ends none).
TickCompletes(t) ==
  pc[t] \notin {"idle", "exited"} /\ pc'[t] = "idle"

\* C20: when a tick completes with browser non-null, the tick detected a
\* secondary screen and either found the referenced process running or
\* launched it itself and saw it alive after the start wait; a handle whose
\* process the tick saw exited, or whose screen had disappeared, is not
\* referenced when the tick completes.
C20_BrowserOnlyIfScreenAndAlive ==
  /\ [][\A t \in Ticks : (TickCompletes(t) /\ browser' # 0) =>
          \/ /\ pc[t] = "query"
             /\ isBrowserRunning
             /\ browser' = browser
             /\ currentScreenName # NoScreen
             /\ TickDetected(t, currentScreenName)
          \/ /\ pc[t] = "move"
             /\ scr[t] # NoScreen
             /\ browser' = lb[t]
             /\ browser' # browser]_vars
  /\ [][\A t \in Ticks, s \in ScreenOpt :
          (TickDetected(t, s) /\ browser # 0 /\ ~BrowserAlive(browser)) =>
             browser' = 0]_vars
  /\ [][\A t \in Ticks : (TickCompletes(t) /\ pc[t] = "closeGone") =>
          browser' = 0]_vars
  /\ [][\A c \in 0..MaxTicks : (pc[c] = "wait" /\ pc'[c] = "move") =>
          BrowserAlive(lb[c])]_vars

\* The only browser's process has exited, a tick found no secondary screen
\* and completed with the handle and the name dropped.
C20_Witness ==
  /\ ~isShuttingDown
  /\ InFlightTicks = {}
  /\ bProc = [b \in BrowserIds |-> IF b = 1 THEN "exited" ELSE "unspawned"]
  /\ browser = 0
  /\ currentScreenName = NoScreen
  /\ pc[MainCtx] = "waitExit"

\* C21: a tick whose display query fails (detectScreens returns its failure
\* value) while the browser is running sends the browser no signal and
\* leaves browser and currentScreenName as they were.
C21_QueryFailureIsSoft ==
  [][\A t \in Ticks :
       (/\ TickDetected(t, findSecondaryScreen(DetectFailed).name)
        /\ isBrowserRunning) =>
          /\ bProc' = bProc
          /\ UNCHANGED <<browser, currentScreenName>>]_vars

\* C22: when a close() returns (in a tick, on the power path or on the
\* signal path), the browser process it closed has exited.
C22_ClosedBrowserIsGone ==
  [][/\ \A t \in Ticks : TickClosed(t) => bProc'[lb[t]] = "exited"
     /\ PowerBrowserClosed => bProc'[shutB] = "exited"
     /\ ManualBrowserClosed => bProc'[shutB] = "exited"]_vars

\* A step of the gracefulStop under observation, and a measure every such
\* step raises.
StopStep == ObservedStopCall \/ ObservedStopPoll \/ ObservedStopSettled

StopRank ==
  IF returned = "gracefulStop" THEN MaxPolls + 3
  ELSE IF pcShut = "M_settle" THEN MaxPolls + 2
  ELSE IF pcShut = "M_stop" THEN elapsed + 1
  ELSE 0

\* C23: gracefulStop called on a process that has exited returns true and
\* sends no signal; called on a running process it sends SIGINT, once, and
\* returns true when a poll sees the exit with no poll having found the
\* ceiling reached; a poll that finds the ceiling reached with the process
\* alive sends SIGKILL, and after the settle wait false is returned; SIGKILL
\* is sent in no other case, and every call returns.
C23_GracefulStopContract ==
  /\ [][(ObservedStopCall /\ ~WorkloadAlive(managedProcess)) =>
          /\ returned' = "gracefulStop"
          /\ graceful'
          /\ sent' = <<>>
          /\ wProc' = wProc]_vars
  /\ [][(ObservedStopCall /\ WorkloadAlive(managedProcess)) =>
          /\ returned' = "none"
          /\ sent' = <<"SIGINT">>
          /\ wProc'[managedProcess] = "int"]_vars
  /\ [](sent \in {<<>>, <<"SIGINT">>, <<"SIGINT", "SIGKILL">>})
  /\ []((returned = "gracefulStop" /\ graceful /\ sent # <<>>) =>
          /\ sent = <<"SIGINT">>
          /\ wProc[managedProcess] = "exited"
          /\ elapsed < MaxPolls)
  /\ []((returned = "gracefulStop" /\ ~graceful) =>
          /\ sent = <<"SIGINT", "SIGKILL">>
          /\ elapsed >= MaxPolls)
  /\ [][(Len(sent') > Len(sent) /\ sent'[Len(sent')] = "SIGKILL") =>
          /\ elapsed' >= MaxPolls
          /\ WorkloadAlive(managedProcess)
          /\ pcShut' = "M_settle"]_vars
  /\ [][(returned = "none" /\ returned' = "gracefulStop" /\ ~graceful') =>
          pcShut = "M_settle"]_vars
  /\ []((managedProcess # 0 /\ returned = "none") => ENABLED StopStep)
  /\ [][StopStep => StopRank' > StopRank]_vars

\* The process ignored SIGINT up to the ceiling, was sent SIGKILL, and
\* gracefulStop has returned false after the settle wait.
C23_Witness ==
  /\ returned = "gracefulStop"
  /\ ~graceful
  /\ sent = <<"SIGINT", "SIGKILL">>
  /\ wProc[managedProcess] = "kill"
  /\ elapsed >= MaxPolls

\* C24: on the signal path the wait for the workload's exit has no
\* ceiling: no workload is sent SIGKILL, and the sequence goes on from the
\* wait to the browser close or to exit code 0 only when the workload has
\* exited.
C24_SignalPathWaitsUnbounded ==
  [][entered = "manual" =>
       /\ \A w \in WorkloadIds : wProc'[w] = "kill" => wProc[w] = "kill"
       /\ (/\ pcShut \in {"M_stop", "M_settle"}
           /\ pcShut' \notin {"M_stop", "M_settle"}
           /\ supExit' # 1) => ~WorkloadAlive(shutW)]_vars

\* C24, amended: on the signal path the workload is stopped through
\* gracefulStop.  SIGKILL is sent only by its poll that finds the interrupted
\* workload still alive, and is followed by the settle wait; the sequence
\* goes on to the browser close or to exit code 0 only when a poll saw the
\* workload exited, or when the settle wait after SIGKILL is over.
C24_SignalPathStopsGracefully ==
  /\ [][(\E w \in WorkloadIds : wProc'[w] = "kill" /\ wProc[w] # "kill") =>
          /\ entered = "manual"
          /\ pcShut = "M_stop"
          /\ wProc[shutW] = "int"
          /\ wProc'[shutW] = "kill"
          /\ pcShut' = "M_settle"
          /\ steps' = steps]_vars
  /\ [][(pcShut = "M_stop" /\ pcShut' \notin {"M_stop", "M_settle"}
                           /\ supExit' # 1) =>
          ~WorkloadAlive(shutW)]_vars
  /\ [][(pcShut = "M_settle" /\ pcShut' # "M_settle" /\ supExit' # 1) =>
          wProc[shutW] \in {"kill", "exited"}]_vars
  /\ []((entered = "manual" /\ (pcShut = "M_close" \/ supExit = 0)) =>
          \/ managedProcess = 0
          \/ wProc[managedProcess] \in {"kill", "exited"})

\* After a signal the workload ignored SIGINT up to the ceiling and was sent
\* SIGKILL; the settle wait is over and the browser is being closed.
C24_Witness ==
  /\ entered = "manual"
  /\ pcShut = "M_close"
  /\ managedProcess # 0
  /\ wProc[managedProcess] = "kill"

\* C25: a workload exit that main() observes with the latch clear ends the
\* auto-restart loop and takes main() to its cleanup, which stops the
\* monitors, closes the browser and exits with the workload's exit code.
C25_ExitEchoesWorkload ==
  [][(MainWorkloadExited /\ ~isShuttingDown) =>
       pc'[MainCtx] = "cleanup"]_vars

\* The quote character that is open in front of position i of str ("" for
\* none), reading str from the left.
RECURSIVE OpenQuote(_, _)
OpenQuote(str, i) ==
  IF i = 1 THEN ""
  ELSE LET q == OpenQuote(str, i - 1)
           c == str[i - 1]
       IN IF q # "" THEN (IF c = q THEN "" ELSE q)
          ELSE IF c \in {"\"", "'"} THEN c
          ELSE ""

\* Position i of str holds a quote character that opens or closes a quoted
\* substring; an unquoted space or tab; or, else, a character to keep.
Delimits(str, i) ==
  IF OpenQuote(str, i) = "" THEN str[i] \in {"\"", "'"}
                            ELSE str[i] = OpenQuote(str, i)
Separates(str, i) == OpenQuote(str, i) = "" /\ str[i] \in {" ", "\t"}
KeptPositions(str) ==
  SelectSeq([i \in 1..Len(str) |-> i],
            LAMBDA i : ~Delimits(str, i) /\ ~Separates(str, i))

RECURSIVE Flatten(_)
Flatten(tokens) ==
  IF tokens = <<>> THEN <<>> ELSE Head(tokens) \o Flatten(Tail(tokens))

\* The token that holds the j-th character of the flattened tokens.
TokenOf(tokens, j) ==
  Min({k \in 1..Len(tokens) : j <= Len(Flatten(SubSeq(tokens, 1, k)))})

ExampleParts ==
  <<<<"n", "o", "d", "e">>,
    <<"s", "e", "r", "v", "e", "r", ".", "j", "s">>,
    <<"-", "-", "f", "l", "a", "g">>,
    <<"h", "e", "l", "l", "o", " ", "w", "o", "r", "l", "d">>>>

\* C26: the tokens parseCommand returns hold, in order, exactly the
\* characters of the command string that are neither an unquoted space or
\* tab nor a quote character opening or closing a quoted substring (so
\* whitespace inside quotes stays); two neighbouring kept characters are in
\* one token exactly when no unquoted space or tab lies between them; no
\* token is empty; and the example command yields its four tokens.
C26_ParseCommandTokens ==
  returned = "parseCommand" =>
    LET kept == KeptPositions(command)
        flat == Flatten(parts)
    IN /\ \A k \in 1..Len(parts) : parts[k] # <<>>
       /\ Len(flat) = Len(kept)
       /\ \A j \in 1..Len(kept) : flat[j] = command[kept[j]]
       /\ \A j \in 1..(Len(kept) - 1) :
            (TokenOf(parts, j) = TokenOf(parts, j + 1)) <=>
               ~\E i \in (kept[j] + 1)..(kept[j + 1] - 1) :
                   Separates(command, i)
       /\ (command = ExampleCommand => parts = ExampleParts)

\* The example command has been parsed into four tokens, the last one with
\* the space it had between its quotes.
C26_Witness ==
  /\ returned = "parseCommand"
  /\ command = ExampleCommand
  /\ Len(parts) = 4
  /\ parts[4][6] = " "

\* No process has been spawned, no monitor started and no shutdown sequence
\* entered.
NothingStarted ==
  /\ browser = 0
  /\ managedProcess = 0
  /\ \A b \in BrowserIds : bProc[b] = "unspawned"
  /\ \A w \in WorkloadIds : wProc[w] = "unspawned"
  /\ ~screenMonitorInterval
  /\ currentScreenName = NoScreen
  /\ pmPc \in {"off", "exited"}
  /\ ~pmRunning
  /\ entered = "none"

\* C27: a command that parses to zero tokens makes startProcess spawn
\* nothing, and the supervisor is not left running with it past
\* startProcess; once it has exited other than on a signal, its exit code is
\* 1, and no browser process had been spawned and no power monitor started
\* (the screen monitor's timer, which cannot fire before the exit, is left
\* aside).
C27_EmptyCommandFailsFast ==
  (command # NoCommand /\ parseCommand(command) = <<>>) =>
    /\ managedProcess = 0
    /\ \A w \in WorkloadIds : wProc[w] = "unspawned"
    /\ pc[MainCtx] \notin {"startPM", "waitExit", "backoff"}
    /\ (supExit # -1 /\ entered = "none") =>
          /\ supExit = 1
          /\ browser = 0
          /\ \A b \in BrowserIds : bProc[b] = "unspawned"
          /\ pmPc \in {"off", "exited"}

\* The command line gives no command: no argument, or only the separator.
NoCommandGiven == args = <<>> \/ args = <<DashDash>>

\* C28: with no command on the command line main() exits with code 1 in
\* its first step: the signal handler never runs, no screen is detected and
\* no browser, workload or monitor is started.
C28_UsageExit ==
  /\ [](NoCommandGiven =>
          /\ NothingStarted
          /\ pc[MainCtx] \in {"start", "exited"}
          /\ supExit \in {-1, 1})
  /\ []((NoCommandGiven /\ Running) => ENABLED MainStart)
  /\ [][(NoCommandGiven /\ MainStart) => supExit' = 1]_vars
  /\ [][NoCommandGiven => ~Signal]_vars

\* Started with the separator alone, the supervisor has exited with code 1
\* and nothing was started.
C28_Witness ==
  /\ args = <<DashDash>>
  /\ supExit = 1
  /\ pc[MainCtx] = "exited"
  /\ NothingStarted

\* C29: when the list the display query returned has an entry not marked
\* primary, findSecondaryScreen returns the first such entry in the order
\* of the list, whatever the other entries are.
C29_FirstNonPrimary ==
  (/\ returned = "findSecondaryScreen"
   /\ \E i \in 1..Len(screens) : ~screens[i].isPrimary) =>
     \E i \in 1..Len(screens) :
       /\ ~screens[i].isPrimary
       /\ \A j \in 1..(i - 1) : screens[j].isPrimary
       /\ secondary = screens[i]

\* Of a primary screen and two others, the one listed first was returned
\* although the one listed after it lies further right.
C29_Witness ==
  /\ returned = "findSecondaryScreen"
  /\ Len(screens) = 3
  /\ screens[1].isPrimary
  /\ ~screens[2].isPrimary /\ screens[2].xOffset = 0
  /\ ~screens[3].isPrimary /\ screens[3].xOffset = 1920
  /\ secondary = screens[2]

\* C30: for a list of one entry that is marked primary, and for the empty
\* list, findSecondaryScreen returns null.
C30_NoSecondary ==
  (/\ returned = "findSecondaryScreen"
   /\ \/ screens = <<>>
      \/ Len(screens) = 1 /\ screens[1].isPrimary) =>
     secondary = NullScreen

\* The query listed the primary screen alone and null was returned.
C30_Witness ==
  /\ returned = "findSecondaryScreen"
  /\ Len(screens) = 1
  /\ screens[1].isPrimary
  /\ secondary = NullScreen


\* The positions of the entries of a list that are furthest to the right.
Rightmost(list) ==
  {i \in 1..Len(list) : \A j \in 1..Len(list) :
                          list[j].xOffset <= list[i].xOffset}

AllPrimary(list) == \A i \in 1..Len(list) : list[i].isPrimary

\* C31: for a detected list of two or more screens, all of them marked
\* primary, findSecondaryScreen returns an entry with the maximum xOffset,
\* and of the entries tied at the maximum the first in query order.
C31_RightmostFirstOfTies ==
  (returned = "findSecondaryScreen" /\ Len(screens) >= 2
     /\ AllPrimary(screens))
    => secondary = screens[Min(Rightmost(screens))]

\* Three primary screens were detected, the last two tied at the maximum
\* under different names, and the call returned the second.
C31_Witness ==
  /\ returned = "findSecondaryScreen"
  /\ Len(screens) = 3
  /\ AllPrimary(screens)
  /\ screens[1].xOffset < screens[2].xOffset
  /\ screens[2].xOffset = screens[3].xOffset
  /\ screens[2].name # screens[3].name
  /\ secondary = screens[2]

\* C32: once stop() has been called on a running power monitor no poll
\* timer is pending and the monitor is not running, no new poll starts, and
\* a further stop() changes nothing of the monitor's state.
C32_StopHaltsPolling ==
  /\ [](stopCalls > 0 => ~pmRunning /\ pmPc # "timer")
  /\ [][stopCalls > 0 => ~(pmPc # "reading" /\ pmPc' = "reading")]_vars
  /\ [][(stopCalls > 0 /\ stopCalls' > stopCalls)
          => UNCHANGED <<pmPc, pmRunning, pmStatus>>]_vars

\* stop() was called twice while the first poll timer was pending: nothing
\* was read after the initial sample and the monitor is at rest.
C32_Witness ==
  /\ stopCalls = MaxStops
  /\ Len(samples) = 1
  /\ pmPc = "idle"
  /\ ~pmRunning

\* C40: after stop() has returned, onPowerDisconnect is not invoked again,
\* also not by a poll whose status read was in flight when stop() was
\* called.
C40_NoCallbackAfterStop ==
  [][stopCalls > 0 => invocations' = invocations]_vars

\* C33: a monitor started without a power-state source never polls and
\* never invokes the disconnect handler, its status stays unknown, stop()
\* leaves it as it is, and the supervisor goes on into its restart loop and
\* ends only on a termination signal.
C33_NoSourceIsSoftDisable ==
  /\ [](pmPc = "nosrc" =>
          /\ pmStatus = "unknown"
          /\ ~pmRunning
          /\ entered # "power"
          /\ "power" \notin lateTriggers)
  /\ [][pmPc = "nosrc" => pmPc' \in {"nosrc", "exited"}]_vars
  /\ [][(pmPc # "nosrc" /\ pmPc' = "nosrc") =>
          /\ supExit' = -1
          /\ pc'[MainCtx] = IF isShuttingDown THEN "done" ELSE "waitExit"]_vars
  /\ [][(pmPc = "nosrc" /\ supExit' # -1) => entered' = "manual"]_vars

\* Without a power source the supervisor has restarted an exited workload
\* and awaits the exit of the new one.
C33_Witness ==
  /\ pmPc = "nosrc"
  /\ supExit = -1
  /\ pc[MainCtx] = "waitExit"
  /\ wProc[1] = "exited"
  /\ WorkloadAlive(2)
  /\ ~isShuttingDown

\* A launch awaited by context c ends in failure: no executable was found,
\* or the spawned process had exited at the check after the wait.
LaunchFails(c) ==
  /\ pc[c] \in {"find", "wait"}
  /\ pc'[c] \in {"idle", "startPM"}

\* C34: a launch that fails, in a tick or at startup, leaves browser null
\* (at startup with the screen monitor installed); while the supervisor
\* runs with the monitor installed a tick can fire, and a tick that has
\* queried goes on; a tick that detects a screen s with browser null awaits
\* launchBrowser(s) again; and a launch that succeeds in a tick leaves
\* browser holding the process it spawned.
C34_FailedLaunchIsRetried ==
  /\ [](/\ (Running /\ screenMonitorInterval /\ IdleTicks # {})
             => ENABLED TickFire
        /\ \A t \in Ticks : (Running /\ pc[t] = "query")
             => ENABLED TickQueried(t))
  /\ [][/\ \A c \in 0..MaxTicks : LaunchFails(c) =>
            /\ browser' = 0
            /\ c = MainCtx => screenMonitorInterval'
        /\ (TickFire /\ ~isShuttingDown) =>
            \E t \in Ticks : pc[t] = "idle" /\ pc'[t] = "query"
        /\ \A t \in Ticks :
            /\ \A s \in Screens : (browser = 0 /\ TickDetected(t, s)) =>
                 /\ pc'[t] = "find"
                 /\ scr'[t] = s
                 /\ currentScreenName' = s
            /\ (pc[t] = "move" /\ pc'[t] = "idle") =>
                 /\ browser' = lb[t]
                 /\ browser' # 0]_vars

\* Nothing was ever spawned, yet a launch on DP-1 has been awaited and has
\* ended after tick 1 began its own on HDMI-1: the launch of the second
\* tick failed and left browser null, and that tick has fired again and is
\* about to decide with the latch clear.
C34_Witness ==
  /\ \A b \in BrowserIds : bProc[b] = "unspawned"
  /\ browser = 0
  /\ pc[1] = "find"
  /\ scr[1] = "HDMI-1"
  /\ currentScreenName = "DP-1"
  /\ pc[2] = "query"
  /\ ~isShuttingDown
  /\ supExit = -1

\* launchBrowser awaited by context c returns to its caller.
LaunchReturns(c) == pc'[c] \in {"idle", "startPM"}

\* C35: launchBrowser returns null, having spawned nothing, when no
\* executable is found; it returns null, without going on to the window
\* positioner, when the spawned process has exited at the check after the
\* wait, and goes on to the positioner only with the process alive; after
\* the positioner, whatever it reported, it returns the instance of the
\* process it spawned; and close() sends its terminate signal to the
\* process of the instance held in `browser`.
C35_LaunchResult ==
  [][/\ \A c \in 0..MaxTicks :
          /\ (pc[c] = "find" /\ LaunchReturns(c)) =>
               browser' = 0 /\ bProc' = bProc
          /\ (pc[c] = "wait" /\ LaunchReturns(c)) =>
               browser' = 0 /\ ~BrowserAlive(lb[c])
          /\ (pc[c] = "wait" /\ pc'[c] = "move") => BrowserAlive(lb[c])
          /\ (pc[c] = "move" /\ LaunchReturns(c)) =>
               /\ lb[c] # 0
               /\ browser' = lb[c]
               /\ bProc' = bProc
          /\ pc'[c] = "move" => pc[c] \in {"wait", "move"}
     /\ \A b \in BrowserIds :
          (bProc[b] # "term" /\ bProc'[b] = "term") => browser = b]_vars

\* A tick's launch has returned the instance of process 2 while that
\* process was alive, and a later close() has sent it the terminate signal.
C35_Witness ==
  /\ browser = 2
  /\ bProc[2] = "term"
  /\ bProc[1] = "exited"
  /\ \E t \in Ticks : pc[t] = "closeGone" /\ lb[t] = 2

\* Attempt k moved the window, and the position read back afterwards lies
\* within the target's horizontal extent.
Confirmed(k) ==
  /\ wmctrl[k].moveExitCode = 0
  /\ wmctrl[k].pos # <<>>
  /\ wmctrl[k].pos[1] >= secondary.xOffset
  /\ wmctrl[k].pos[1] < secondary.xOffset + ScreenWidth

\* Attempt k moved the window, and no position could be read back.
Unverified(k) == wmctrl[k].moveExitCode = 0 /\ wmctrl[k].pos = <<>>

\* C36: the positioner reports success only if the window was
\* found and some attempt within the budget moved it and confirmed its x
\* position within [xOffset, xOffset + width) of the target.
C36_SuccessOnlyIfVerified ==
  (returned = "moveFirefoxToScreen" /\ moved)
    => /\ windowId \notin {NoWindow, "throws"}
       /\ \E k \in 1..Len(wmctrl) : Confirmed(k)

\* C36, amended: the positioner reports success exactly if the window
\* was found and some attempt within the budget moved it and then either
\* confirmed its x position within [xOffset, xOffset + width) of the target
\* or could not read the position back; it reports failure when the window
\* is not found, when every move fails, and when every attempt that moved
\* the window read back a position outside the target.
C36_SuccessIfVerifiedOrUnreadable ==
  returned = "moveFirefoxToScreen" =>
    /\ moved <=> /\ windowId \notin {NoWindow, "throws"}
                 /\ \E k \in 1..Len(wmctrl) : Confirmed(k) \/ Unverified(k)
    /\ Len(wmctrl) = IF isStartup THEN StartupAttempts ELSE 1

\* In startup mode the first move failed, the second left the window one
\* pixel right of the target, and the third was confirmed at the target's
\* last column: success.
C36_Witness ==
  /\ returned = "moveFirefoxToScreen"
  /\ moved
  /\ isStartup
  /\ wmctrl[1].moveExitCode = 1
  /\ wmctrl[2] = [moveExitCode |-> 0,
                  pos |-> <<secondary.xOffset + ScreenWidth>>]
  /\ wmctrl[3] = [moveExitCode |-> 0,
                  pos |-> <<secondary.xOffset + ScreenWidth - 1>>]

\* The workload interrupted by the power-loss sequence has exited, or there
\* was none to wait for.
PowerWorkloadGone ==
  managedProcess = 0 \/ ~WorkloadAlive(managedProcess)

\* C37: once the power-loss sequence has been entered and the workload has
\* exited, the system shutdown command is eventually issued, whatever
\* termination signals the supervisor receives in the meantime.
C37_ShutdownDespiteSignals ==
  (entered = "power" /\ PowerWorkloadGone) ~> Has("shutdown")

\* C38: when the supervisor has exited with code 0 through the signal path,
\* every browser process it spawned has exited or was sent a signal by
\* close(); none is left running untouched, also not one whose launch was
\* in flight when the signal arrived.
C38_NoBrowserLeftBehind ==
  (supExit = 0 /\ entered = "manual")
    => \A b \in BrowserIds : bProc[b] # "running"

\* The waits of the signal path: gracefulStop's poll loop, its settle delay
\* and browser.close().
ManualWaits == {"M_stop", "M_settle", "M_close"}

\* C39: a termination signal either ends the supervisor at once or leaves
\* it in one of the signal path's waits; each of these waits ends by a
\* timer of its own, whatever the workload and the browser do, so its
\* continuation is always due; every continuation brings the path strictly
\* nearer the exit, nothing else moves it, and the exit with code 0 is
\* reached without a further signal.
C39_ManualPathReachesExit ==
  /\ [](/\ (Running /\ pcShut = "M_stop") => ENABLED ManualStopPoll
        /\ (Running /\ pcShut = "M_settle") => ENABLED ManualSettled
        /\ (Running /\ pcShut = "M_close") => ENABLED ManualBrowserClosed
        /\ pcShut \in ManualWaits => Running /\ entered = "manual"
        /\ (supExit = 0 /\ entered = "manual") => "signal" \notin lateTriggers)
  /\ [][/\ Signal => (supExit' # -1 \/ pcShut' \in ManualWaits)
        /\ pcShut \in ManualWaits =>
             /\ pcShut' \in ManualWaits \cup {"exited"}
             /\ ManualRank' >= ManualRank
             /\ (ManualRank' > ManualRank) <=> (ManualStep \/ Signal)]_vars

\* One signal, and both waits ran to their ceilings: the workload was
\* killed after the graceful timeout, the browser after the close timeout,
\* and the supervisor exited with code 0.
C39_Witness ==
  /\ supExit = 0
  /\ entered = "manual"
  /\ lateTriggers = {}
  /\ steps = <<"halt", "interrupt", "stopped", "close", "closed", "exit">>
  /\ \E w \in WorkloadIds : wProc[w] = "kill"
  /\ \E b \in BrowserIds : bProc[b] = "kill"
====
